---- MODULE Spec2Model ----
(***************************************************************************)
(* Classroom-management REST backend (src/routes/classRoomRoute.ts over    *)
(* the relational schema of src/prisma/schema.prisma).                     *)
(*                                                                         *)
(* The state is the content of the tables, the upload directory, the       *)
(* clock read by the upload filename callback, the handlers that are       *)
(* suspended at an await with more persistence calls to make, and the      *)
(* response sent by the last step.  A handler that makes one persistence   *)
(* call is one action; a handler that makes several is one action per      *)
(* awaited call, so that other requests interleave between them.  Every    *)
(* persistence call can fail (storeUp = FALSE), which the handlers answer  *)
(* from their catch block.                                                 *)
(***************************************************************************)
EXTENDS Integers, Sequences, FiniteSets, TLC

\* ---------------------------------------------------------------- bounds
MaxUsers == 2
MaxClasses == 1
MaxMembers == 2
MaxAssignments == 1
MaxFiles == 1
MaxTime == 1
MaxInflight == 1
MaxSubmissions == 1
MaxComments == 1
MaxPosts == 2
MaxRows == 4

\* ------------------------------------------------------- request values
\* A numeric request field is an integer, Undefined when the field is
\* missing or not numeric, or Blank when it is null or the empty string:
\* Number() turns Undefined into NaN and Blank into 0.  Null is the null
\* of a query argument or of a column, which is no number.
Undefined == -1
NaN == -2
Blank == -3
NoString == "undefined"
Null == -4

ToNumber(v) == IF v = Undefined THEN NaN ELSE IF v = Blank THEN 0 ELSE v

\* isInt({ min: 0 }) in place of isInt({ gt: 0 })
IsPositiveInt_Min0(v) == v # Undefined /\ v >= 0

\* express-validator isInt({ gt: 0 })
IsPositiveInt(v) == v # Undefined /\ v > 0

\* express-validator notEmpty().isString()
NotEmptyString(s) == s # NoString /\ s # ""

\* path.extname(file.originalname)
ExtName(originalname) ==
    IF originalname \in {"hw.pdf", "report.pdf"} THEN ".pdf"
    ELSE IF originalname = "notes.txt" THEN ".txt"
    ELSE ""

Roles == {"ADMIN", "MODERATOR", "NORMAL"}

\* Request inputs: every id that can exist within the bounds, one that
\* cannot, and a missing value; zero where a validator tests the sign.
UserIdInputs == {Undefined, 0} \cup (1..(MaxUsers + 1))
\* a field no validator reads: missing, null or empty, or an integer
UnvalidatedUserIds == {Undefined, Blank} \cup (1..(MaxUsers + 1))
ClassIdInputs == {Undefined} \cup (1..(MaxClasses + 1))
FileIdInputs == {Undefined, Blank, 0} \cup (1..(MaxFiles + 1))
AssignmentIdInputs == {Undefined} \cup (1..(MaxAssignments + 1))
NameInputs == {"", "Math101"}
TextInputs == {NoString, "text"}
\* the role of an update-member-role body: a value of the Role enum or a
\* string outside it. A body without role is not among the inputs: its
\* data is empty, and what updateMany counts then is the client's to say.
RoleInputs == Roles \cup {"TEACHER"}
\* a request to add-member without role, and one that asks for ADMIN
AddMemberRoleInputs == {NoString, "ADMIN"}
OriginalNames == {"hw.pdf", "report.pdf", "notes.txt"}
PostTypes == {"ASSIGNMENT", "MESSAGE"}
PostTypeInputs == PostTypes \cup {NoString, "NOTE"}
\* title and content: both sent, or one of them missing
PostTextInputs == {<<"text", "text">>, <<NoString, "text">>, <<"text", NoString>>}
\* index.ts is there twice: the first copy mounts the static directory and
\* two routers, the second copy two routers and the post router.
IndexCopies == {1, 2}
Mounts(copy) ==
    IF copy = 1 THEN {"/public", "/api/users", "/api/classrooms"}
    ELSE {"/api/users", "/api/classrooms", "/api/posts"}

\* The Prisma client has one delegate per model of the schema it was
\* generated from: schema.prisma declares no model Post, the migration
\* creates the table Post.
Schemas == {"schema.prisma", "migration"}
Models(schema) ==
    IF schema = "schema.prisma"
    THEN {"Assignment", "Submission", "AssignmentAssignmentTo", "User", "ClassRoom",
          "ClassMember", "FileUpload", "Comment"}
    ELSE {"User", "ClassRoom", "ClassMember", "Post", "Comment"}

\* a build: one copy of index.ts with a client of one schema
Builds == [index : IndexCopies, schema : Schemas]

\* ----------------------------------------------------------------- state
VARIABLES users, classRooms, classMembers, fileUploads, assignments,
          assignedTo, comments, submissions, posts, disk, now, inflight, resp

store == <<users, classRooms, classMembers, fileUploads, assignments, assignedTo,
           comments, submissions, posts, disk>>
vars == <<users, classRooms, classMembers, fileUploads, assignments, assignedTo,
          comments, submissions, posts, disk, now, inflight, resp>>

Rows(t) == {t[i] : i \in 1..Len(t)}
Ids(t) == {t[i].id : i \in 1..Len(t)}

NoResp == [op |-> "none", status |-> 0, body |-> {}]
Response(op, status, body) == [op |-> op, status |-> status, body |-> body]

\* Handlers suspended between two awaited persistence calls
Idle == [op |-> "idle"]
Slots == DOMAIN inflight
FreeSlots == {s \in Slots : inflight[s] = Idle}
FirstFree == CHOOSE s \in FreeSlots : \A t \in FreeSlots : s <= t

Init ==
    /\ users = 1..MaxUsers
    /\ classRooms = <<>>
    /\ classMembers = <<>>
    /\ fileUploads = <<>>
    /\ assignments = <<>>
    /\ assignedTo = <<>>
    /\ comments = <<>>
    /\ submissions = <<>>
    /\ posts = <<>>
    /\ disk = {}
    /\ now = 0
    /\ inflight = [s \in 1..MaxInflight |-> Idle]
    /\ resp = NoResp

\* ------------------------------------------------------ POST /api/classrooms
ClassroomValid(name, description, creatorId) ==
    /\ NotEmptyString(name)
    /\ NotEmptyString(description)
    /\ IsPositiveInt(creatorId)

\* the creator's row takes the column default instead of Role.ADMIN
NestedMemberCreate_DefaultRole(members, classId, creatorId) ==
    Append(members, [id |-> Len(members) + 1, userId |-> creatorId,
                     classId |-> classId, role |-> "NORMAL"])

\* the nested members.create of prisma.classRoom.create
NestedMemberCreate(members, classId, creatorId) ==
    Append(members, [id |-> Len(members) + 1, userId |-> creatorId,
                     classId |-> classId, role |-> "ADMIN"])

\* the classroom and the membership inserted by two separate calls, the
\* second of which can fail on its own
CreateClassroom_TwoInserts(name, description, creatorId, storeUp) ==
    /\ IF ~ClassroomValid(name, description, creatorId)
       THEN /\ resp' = Response("createClassroom", 400, {})
            /\ UNCHANGED <<classRooms, classMembers>>
       ELSE IF ToNumber(creatorId) \notin users
       THEN /\ resp' = Response("createClassroom", 500, {})
            /\ UNCHANGED <<classRooms, classMembers>>
       ELSE LET id == Len(classRooms) + 1 IN
            /\ classRooms' = Append(classRooms,
                   [id |-> id, name |-> name, description |-> description,
                    createdBy |-> ToNumber(creatorId)])
            /\ IF storeUp
               THEN /\ classMembers' = NestedMemberCreate(classMembers, id,
                                                          ToNumber(creatorId))
                    /\ resp' = Response("createClassroom", 201, {id})
               ELSE /\ UNCHANGED classMembers
                    /\ resp' = Response("createClassroom", 500, {})
    /\ UNCHANGED <<comments, submissions, posts, users, fileUploads, assignments, assignedTo, disk, now, inflight>>

\* 400 from the validators, 500 from the catch block (the store fails, or
\* the foreign key of createdBy names no user), 201 otherwise
CreateClassroomStatus(name, description, creatorId, storeUp) ==
    IF ~ClassroomValid(name, description, creatorId) THEN 400
    ELSE IF ~storeUp \/ ToNumber(creatorId) \notin users THEN 500
    ELSE 201

CreateClassroom(name, description, creatorId, storeUp) ==
    /\ IF CreateClassroomStatus(name, description, creatorId, storeUp) # 201
       THEN /\ resp' = Response("createClassroom",
                         CreateClassroomStatus(name, description, creatorId, storeUp), {})
            /\ UNCHANGED <<classRooms, classMembers>>
       ELSE LET id == Len(classRooms) + 1 IN
            /\ classRooms' = Append(classRooms,
                   [id |-> id, name |-> name, description |-> description,
                    createdBy |-> ToNumber(creatorId)])
            /\ classMembers' = NestedMemberCreate(classMembers, id, ToNumber(creatorId))
            /\ resp' = Response("createClassroom", 201, {id})
    /\ UNCHANGED <<comments, submissions, posts, users, fileUploads, assignments, assignedTo, disk, now, inflight>>

\* ------------------------------------- POST /api/classrooms/:classId/add-member
\* The handler reads userId alone from the body: a role sent with the
\* request is not used, the row is written with Role.NORMAL.
\* a store with a unique index on (userId, classId)
AddMemberStatus_UniquePair(classId, userId, storeUp) ==
    IF ~(IsPositiveInt(classId) /\ IsPositiveInt(userId)) THEN 400
    ELSE IF \/ ~storeUp
            \/ ToNumber(classId) \notin Ids(classRooms)
            \/ ToNumber(userId) \notin users
            \/ \E m \in Rows(classMembers) :
                  m.classId = ToNumber(classId) /\ m.userId = ToNumber(userId)
    THEN 500
    ELSE 201

\* 400 from the validators, 500 from the catch block, 201 otherwise
AddMemberStatus(classId, userId, storeUp) ==
    IF ~(IsPositiveInt(classId) /\ IsPositiveInt(userId)) THEN 400
    ELSE IF \/ ~storeUp
            \/ ToNumber(classId) \notin Ids(classRooms)
            \/ ToNumber(userId) \notin users
    THEN 500
    ELSE 201

\* a handler that also assigns the class's earlier assignments to the member
AddMember_AssignsEarlier(classId, userId, role, storeUp) ==
    /\ IF AddMemberStatus(classId, userId, storeUp) # 201
       THEN /\ resp' = Response("addMember", AddMemberStatus(classId, userId, storeUp), {})
            /\ UNCHANGED <<classMembers, assignedTo>>
       ELSE LET id == Len(classMembers) + 1
                earlier == SelectSeq(assignments,
                                     LAMBDA a : a.classId = ToNumber(classId)) IN
            /\ classMembers' = Append(classMembers,
                   [id |-> id, userId |-> ToNumber(userId),
                    classId |-> ToNumber(classId), role |-> "NORMAL"])
            /\ assignedTo' = assignedTo \o [i \in 1..Len(earlier) |->
                   [id |-> Len(assignedTo) + i, assignmentId |-> earlier[i].id,
                    userId |-> ToNumber(userId)]]
            /\ resp' = Response("addMember", 201, {id})
    /\ UNCHANGED <<comments, submissions, posts, users, classRooms, fileUploads, assignments,
                   disk, now, inflight>>

AddMember(classId, userId, role, storeUp) ==
    /\ IF AddMemberStatus(classId, userId, storeUp) # 201
       THEN /\ resp' = Response("addMember", AddMemberStatus(classId, userId, storeUp), {})
            /\ UNCHANGED classMembers
       ELSE LET id == Len(classMembers) + 1 IN
            /\ classMembers' = Append(classMembers,
                   [id |-> id, userId |-> ToNumber(userId),
                    classId |-> ToNumber(classId), role |-> "NORMAL"])
            /\ resp' = Response("addMember", 201, {id})
    /\ UNCHANGED <<comments, submissions, posts, users, classRooms, fileUploads, assignments, assignedTo,
                   disk, now, inflight>>

\* ------------------------------ PUT /api/classrooms/:classId/update-member-role
\* where: { classId, userId } of prisma.classMember.updateMany
Matches(m, classId, userId) == m.classId = classId /\ m.userId = userId

MatchCount(members, classId, userId) ==
    Cardinality({i \in 1..Len(members) : Matches(members[i], classId, userId)})

\* the matching rows deleted and created again with the new role
UpdateMany_DeleteAndCreate(members, classId, userId, role) ==
    LET kept == SelectSeq(members, LAMBDA m : ~Matches(m, classId, userId))
        gone == SelectSeq(members, LAMBDA m : Matches(m, classId, userId)) IN
    kept \o [i \in 1..Len(gone) |->
                [id |-> Len(members) + i, userId |-> userId, classId |-> classId,
                 role |-> role]]

\* the first matching row alone
UpdateMany_First(members, classId, userId, role) ==
    [i \in 1..Len(members) |->
        IF /\ Matches(members[i], classId, userId)
           /\ \A j \in 1..(i - 1) : ~Matches(members[j], classId, userId)
        THEN [members[i] EXCEPT !.role = role]
        ELSE members[i]]

\* an update that neither takes ADMIN from a row nor gives it
UpdateMany_GuardsAdmin(members, classId, userId, role) ==
    [i \in 1..Len(members) |->
        IF /\ Matches(members[i], classId, userId)
           /\ role # "ADMIN"
           /\ members[i].role # "ADMIN"
        THEN [members[i] EXCEPT !.role = role]
        ELSE members[i]]

\* data: { role }
UpdateMany(members, classId, userId, role) ==
    [i \in 1..Len(members) |->
        IF Matches(members[i], classId, userId)
        THEN [members[i] EXCEPT !.role = role]
        ELSE members[i]]

\* a role column of free text
UpdateManyRejected_AnyRole(classId, userId, role) ==
    \/ ToNumber(classId) = NaN
    \/ ToNumber(userId) = NaN

\* the query is rejected before it reaches the rows when an argument does
\* not have the type of its column
UpdateManyRejected(classId, userId, role) ==
    \/ ToNumber(classId) = NaN
    \/ ToNumber(userId) = NaN
    \/ role \notin Roles

\* 500 from the catch block, 404 when updatedMember.count is 0, 200 otherwise
UpdateMemberRoleStatus(members, classId, userId, role, storeUp) ==
    IF ~storeUp \/ UpdateManyRejected(classId, userId, role) THEN 500
    ELSE IF MatchCount(members, ToNumber(classId), ToNumber(userId)) = 0 THEN 404
    ELSE 200

\* the ClassMember table after the call
UpdateMemberRoleRows(members, classId, userId, role, storeUp) ==
    IF ~storeUp \/ UpdateManyRejected(classId, userId, role) THEN members
    ELSE UpdateMany(members, ToNumber(classId), ToNumber(userId), role)

UpdateMemberRole(classId, userId, role, storeUp) ==
    /\ classMembers' = UpdateMemberRoleRows(classMembers, classId, userId, role, storeUp)
    /\ resp' = Response("updateMemberRole",
                 UpdateMemberRoleStatus(classMembers, classId, userId, role, storeUp), {})
    /\ UNCHANGED <<comments, submissions, posts, users, classRooms, fileUploads, assignments, assignedTo,
                   disk, now, inflight>>

\* ------------------------------------------ GET /api/classrooms/:userId/classes
\* where: { members: { every: { userId } } }
ClassesOf_Every(rooms, members, userId) ==
    {c \in Rows(rooms) :
        \A m \in Rows(members) : m.classId = c.id => m.userId = userId}

\* where: { members: { some: { userId } } }
ClassesOf(rooms, members, userId) ==
    {c \in Rows(rooms) :
        \E m \in Rows(members) : m.classId = c.id /\ m.userId = userId}

ListUserClassesStatus(userId, storeUp) ==
    IF ~IsPositiveInt(userId) THEN 400
    ELSE IF ~storeUp THEN 500
    ELSE 200

ListUserClasses(userId, storeUp) ==
    /\ IF ListUserClassesStatus(userId, storeUp) # 200
       THEN resp' = Response("listUserClasses", ListUserClassesStatus(userId, storeUp), {})
       ELSE resp' = Response("listUserClasses", 200,
                {c.id : c \in ClassesOf(classRooms, classMembers, ToNumber(userId))})
    /\ UNCHANGED <<comments, submissions, posts, users, classRooms, classMembers, fileUploads, assignments,
                   assignedTo, disk, now, inflight>>

\* -------------- GET /api/classrooms/:classId/available-members/:currentUserId
\* prisma.user.findMany() without the where clause
UsersExcept_All(currentUserId) == users

\* prisma.user.findMany({ where: { id: { not: currentUserId } } })
UsersExcept(currentUserId) == {u \in users : u # currentUserId}

\* the member ids of every class instead of those of classId
MemberIds_AnyClass(members, classId) ==
    {members[i].userId : i \in 1..Len(members)}

\* classMembers.map((member) => member.userId)
MemberIds(members, classId) ==
    {members[i].userId : i \in {j \in 1..Len(members) : members[j].classId = classId}}

\* allUsers.filter((user) => !memberIds.includes(user.id))
AvailableUsers(allUsers, memberIds) == {u \in allUsers : u \notin memberIds}

\* the answer of the first part of the handler: 400 from the validators,
\* 500 from the catch block, none (0) when the handler goes on
ListAvailableMembersUsersStatus(classId, currentUserId, storeUp) ==
    IF ~(IsPositiveInt(classId) /\ IsPositiveInt(currentUserId)) THEN 400
    ELSE IF ~storeUp THEN 500
    ELSE 0

\* validation and the first read
ListAvailableMembersUsers(classId, currentUserId, storeUp) ==
    /\ FreeSlots # {}
    /\ IF ListAvailableMembersUsersStatus(classId, currentUserId, storeUp) # 0
       THEN /\ resp' = Response("listAvailableMembers",
                         ListAvailableMembersUsersStatus(classId, currentUserId, storeUp),
                         {})
            /\ UNCHANGED inflight
       ELSE /\ inflight' = [inflight EXCEPT ![FirstFree] =
                   [op |-> "listAvailableMembers", classId |-> ToNumber(classId),
                    currentUserId |-> ToNumber(currentUserId),
                    allUsers |-> UsersExcept(ToNumber(currentUserId))]]
            /\ resp' = NoResp
    /\ UNCHANGED <<comments, submissions, posts, users, classRooms, classMembers, fileUploads, assignments,
                   assignedTo, disk, now>>

\* the second read, the filter and the response
ListAvailableMembersFilter(s, storeUp) ==
    /\ inflight[s].op = "listAvailableMembers"
    /\ IF ~storeUp
       THEN resp' = Response("listAvailableMembers", 500, {})
       ELSE resp' = Response("listAvailableMembers", 200,
                AvailableUsers(inflight[s].allUsers,
                               MemberIds(classMembers, inflight[s].classId)))
    /\ inflight' = [inflight EXCEPT ![s] = Idle]
    /\ UNCHANGED <<comments, submissions, posts, users, classRooms, classMembers, fileUploads, assignments,
                   assignedTo, disk, now>>

\* ------------------------------------ POST /api/classrooms/:classId/assignments
\* What the Prisma client makes of a number it is given as an argument.
\* The handler passes Number(...) of every id, NaN for a missing one.  The
\* sources do not pin the client: one that sends the query as JSON turns
\* NaN into null, as JSON.stringify does (nanAsNull); one that checks the
\* argument against the column type keeps NaN, which is no Int.
QueryArgument(v, nanAsNull) == IF v = NaN /\ nanAsNull THEN Null ELSE v

\* title is a required column; classId and createdBy are required foreign
\* keys, for which neither null nor NaN is taken; fileId is Int?: the
\* argument null is taken, and any number, the 0 that Number() makes of a
\* null or empty field included, has to be the id of a FileUpload
AssignmentRejected(classId, title, createdBy, fileId, nanAsNull) ==
    \/ title = NoString
    \/ QueryArgument(ToNumber(classId), nanAsNull) \notin Ids(classRooms)
    \/ QueryArgument(ToNumber(createdBy), nanAsNull) \notin users
    \/ /\ QueryArgument(ToNumber(fileId), nanAsNull) # Null
       /\ QueryArgument(ToNumber(fileId), nanAsNull) \notin Ids(fileUploads)

\* prisma.classMember.findMany({ where: { classId } }), creator included
RECURSIVE OtherMembers_WithCreator(_, _, _, _)
OtherMembers_WithCreator(members, i, classId, createdBy) ==
    IF i > Len(members) THEN <<>>
    ELSE IF members[i].classId = classId
         THEN <<members[i].userId>> \o OtherMembers_WithCreator(members, i + 1, classId, createdBy)
         ELSE OtherMembers_WithCreator(members, i + 1, classId, createdBy)

\* prisma.classMember.findMany({ where: { classId, userId: { not: createdBy } } })
RECURSIVE OtherMembers(_, _, _, _)
OtherMembers(members, i, classId, createdBy) ==
    IF i > Len(members) THEN <<>>
    ELSE IF members[i].classId = classId /\ members[i].userId # createdBy
         THEN <<members[i].userId>> \o OtherMembers(members, i + 1, classId, createdBy)
         ELSE OtherMembers(members, i + 1, classId, createdBy)

\* classMembers.map(...) and assignmentAssignmentTo.createMany
CreateMany(rows, assignmentId, memberUserIds) ==
    rows \o [i \in 1..Len(memberUserIds) |->
                [id |-> Len(rows) + i, assignmentId |-> assignmentId,
                 userId |-> memberUserIds[i]]]

\* the answer of the first part of the handler: 500 from the catch block,
\* none (0) when the handler goes on
CreateAssignmentInsertStatus(classId, title, createdBy, fileId, nanAsNull, storeUp) ==
    IF ~storeUp \/ AssignmentRejected(classId, title, createdBy, fileId, nanAsNull)
    THEN 500
    ELSE 0

\* prisma.assignment.create
CreateAssignmentInsert(classId, title, createdBy, fileId, nanAsNull, storeUp) ==
    /\ FreeSlots # {}
    /\ IF CreateAssignmentInsertStatus(classId, title, createdBy, fileId, nanAsNull,
                                       storeUp) = 500
       THEN /\ resp' = Response("createAssignment", 500, {})
            /\ UNCHANGED <<assignments, inflight>>
       ELSE LET id == Len(assignments) + 1 IN
            /\ assignments' = Append(assignments,
                   [id |-> id, title |-> title, classId |-> ToNumber(classId),
                    createdBy |-> ToNumber(createdBy),
                    fileId |-> QueryArgument(ToNumber(fileId), nanAsNull)])
            /\ inflight' = [inflight EXCEPT ![FirstFree] =
                   [op |-> "createAssignment", pc |-> "findMany", assignmentId |-> id,
                    classId |-> ToNumber(classId), createdBy |-> ToNumber(createdBy),
                    members |-> <<>>]]
            /\ resp' = NoResp
    /\ UNCHANGED <<comments, submissions, posts, users, classRooms, classMembers, fileUploads, assignedTo, disk, now>>

\* a handler that deletes the assignment again when the fan-out cannot be made
CreateAssignmentFetch_Rollback(s, storeUp) ==
    /\ inflight[s].op = "createAssignment"
    /\ inflight[s].pc = "findMany"
    /\ IF ~storeUp
       THEN /\ resp' = Response("createAssignment", 500, {})
            /\ inflight' = [inflight EXCEPT ![s] = Idle]
            /\ assignments' = SelectSeq(assignments,
                                        LAMBDA a : a.id # inflight[s].assignmentId)
       ELSE /\ inflight' = [inflight EXCEPT
                   ![s].pc = "createMany",
                   ![s].members = OtherMembers(classMembers, 1, inflight[s].classId,
                                               inflight[s].createdBy)]
            /\ resp' = NoResp
            /\ UNCHANGED assignments
    /\ UNCHANGED <<comments, submissions, posts, users, classRooms, classMembers, fileUploads, assignedTo, disk, now>>

\* a fetch of every user but the creator, member of the class or not
CreateAssignmentFetch_AllUsers(s, storeUp) ==
    /\ inflight[s].op = "createAssignment"
    /\ inflight[s].pc = "findMany"
    /\ IF ~storeUp
       THEN /\ resp' = Response("createAssignment", 500, {})
            /\ inflight' = [inflight EXCEPT ![s] = Idle]
       ELSE /\ inflight' = [inflight EXCEPT
                   ![s].pc = "createMany",
                   ![s].members = SelectSeq([i \in 1..Cardinality(users) |-> i],
                                            LAMBDA u : u # inflight[s].createdBy)]
            /\ resp' = NoResp
    /\ UNCHANGED <<comments, submissions, posts, users, classRooms, classMembers, fileUploads, assignments,
                   assignedTo, disk, now>>

\* prisma.classMember.findMany
CreateAssignmentFetch(s, storeUp) ==
    /\ inflight[s].op = "createAssignment"
    /\ inflight[s].pc = "findMany"
    /\ IF ~storeUp
       THEN /\ resp' = Response("createAssignment", 500, {})
            /\ inflight' = [inflight EXCEPT ![s] = Idle]
       ELSE /\ inflight' = [inflight EXCEPT
                   ![s].pc = "createMany",
                   ![s].members = OtherMembers(classMembers, 1, inflight[s].classId,
                                               inflight[s].createdBy)]
            /\ resp' = NoResp
    /\ UNCHANGED <<comments, submissions, posts, users, classRooms, classMembers, fileUploads, assignments,
                   assignedTo, disk, now>>

\* a fan-out over the members of the moment of the createMany
CreateAssignmentFanOut_Refetch(s, storeUp) ==
    /\ inflight[s].op = "createAssignment"
    /\ inflight[s].pc = "createMany"
    /\ IF ~storeUp
       THEN /\ resp' = Response("createAssignment", 500, {})
            /\ UNCHANGED assignedTo
       ELSE /\ assignedTo' = CreateMany(assignedTo, inflight[s].assignmentId,
                                        OtherMembers(classMembers, 1, inflight[s].classId,
                                                     inflight[s].createdBy))
            /\ resp' = Response("createAssignment", 201, {inflight[s].assignmentId})
    /\ inflight' = [inflight EXCEPT ![s] = Idle]
    /\ UNCHANGED <<comments, submissions, posts, users, classRooms, classMembers, fileUploads, assignments, disk, now>>

\* prisma.assignmentAssignmentTo.createMany and the response
CreateAssignmentFanOut(s, storeUp) ==
    /\ inflight[s].op = "createAssignment"
    /\ inflight[s].pc = "createMany"
    /\ IF ~storeUp
       THEN /\ resp' = Response("createAssignment", 500, {})
            /\ UNCHANGED assignedTo
       ELSE /\ assignedTo' = CreateMany(assignedTo, inflight[s].assignmentId,
                                        inflight[s].members)
            /\ resp' = Response("createAssignment", 201, {inflight[s].assignmentId})
    /\ inflight' = [inflight EXCEPT ![s] = Idle]
    /\ UNCHANGED <<comments, submissions, posts, users, classRooms, classMembers, fileUploads, assignments, disk, now>>

\* ------------------------------------------------- POST /api/classrooms/upload
\* a filename that keeps the whole original name
StoredName_WithOriginalName(time, originalname) == [time |-> time, ext |-> originalname]

\* multer.diskStorage filename: Date.now() + path.extname(file.originalname)
StoredName(time, originalname) == [time |-> time, ext |-> ExtName(originalname)]

FileUploadRejected(fileType, userId, classId, fileName) ==
    \/ fileType = NoString
    \/ fileName = NoString
    \/ ToNumber(userId) \notin users
    \/ ToNumber(classId) \notin Ids(classRooms)

\* the handler without its test of req.file
UploadFileStatus_NoFileCheck(hasFile, fileType, userId, classId, fileName, storeUp) ==
    IF ~storeUp \/ FileUploadRejected(fileType, userId, classId, fileName) THEN 500
    ELSE 201

\* 400 without file part, 500 from the catch block, 201 otherwise
UploadFileStatus(hasFile, fileType, userId, classId, fileName, storeUp) ==
    IF ~hasFile THEN 400
    ELSE IF ~storeUp \/ FileUploadRejected(fileType, userId, classId, fileName) THEN 500
    ELSE 201

\* a storage that keeps the file part in memory
UploadFileDisk_MemoryStorage(files, hasFile, time, originalname) == files

\* upload.single("file") stores the file part before the handler runs
UploadFileDisk(files, hasFile, time, originalname) ==
    IF hasFile THEN files \cup {StoredName(time, originalname)} ELSE files

\* the FileUpload table after the call
UploadFileRows(rows, time, hasFile, originalname, fileType, userId, classId, fileName, storeUp) ==
    IF UploadFileStatus(hasFile, fileType, userId, classId, fileName, storeUp) = 201
    THEN Append(rows,
             [id |-> Len(rows) + 1, filePath |-> StoredName(time, originalname),
              fileType |-> fileType, userId |-> ToNumber(userId),
              classId |-> ToNumber(classId), fileName |-> fileName])
    ELSE rows

\* upload.single("file") and the handler up to its await.  Without file part
\* the handler answers 400.  With one, the file is on disk under the name made
\* from the clock of this moment and the handler is suspended in
\* prisma.fileUpload.create: no row and no answer yet.
UploadFileReceive(hasFile, originalname, fileType, userId, classId, fileName) ==
    /\ disk' = UploadFileDisk(disk, hasFile, now, originalname)
    /\ IF ~hasFile
       THEN /\ resp' = Response("uploadFile",
                        UploadFileStatus(FALSE, fileType, userId, classId, fileName, TRUE),
                        {})
            /\ UNCHANGED inflight
       ELSE /\ FreeSlots # {}
            /\ inflight' = [inflight EXCEPT ![FirstFree] =
                   [op |-> "uploadFile", time |-> now, originalname |-> originalname,
                    fileType |-> fileType, userId |-> userId, classId |-> classId,
                    fileName |-> fileName]]
            /\ resp' = NoResp
    /\ UNCHANGED <<comments, submissions, posts, users, classRooms, classMembers,
                   fileUploads, assignments, assignedTo, now>>

\* prisma.fileUpload.create completes or throws, and the handler answers; the
\* row carries the name the middleware gave the file
UploadFileInsert(s, storeUp) ==
    /\ inflight[s].op = "uploadFile"
    /\ fileUploads' = UploadFileRows(fileUploads, inflight[s].time, TRUE,
                                     inflight[s].originalname, inflight[s].fileType,
                                     inflight[s].userId, inflight[s].classId,
                                     inflight[s].fileName, storeUp)
    /\ resp' = Response("uploadFile",
                 UploadFileStatus(TRUE, inflight[s].fileType, inflight[s].userId,
                                  inflight[s].classId, inflight[s].fileName, storeUp),
                 IF UploadFileStatus(TRUE, inflight[s].fileType, inflight[s].userId,
                                     inflight[s].classId, inflight[s].fileName,
                                     storeUp) = 201
                 THEN {Len(fileUploads) + 1} ELSE {})
    /\ inflight' = [inflight EXCEPT ![s] = Idle]
    /\ UNCHANGED <<comments, submissions, posts, users, classRooms, classMembers,
                   assignments, assignedTo, disk, now>>

\* ------------------------------------ POST /api/classrooms/:assignmentId/submit
\* the foreign keys of Submission; Number() of a missing or non-numeric id is NaN
SubmissionRejected(assignmentId, userId) ==
    \/ ToNumber(assignmentId) \notin Ids(assignments)
    \/ ToNumber(userId) \notin users

\* the handler without its test of req.file
SubmitAssignmentStatus_NoFileCheck(hasFile, assignmentId, userId, storeUp) ==
    IF ~storeUp \/ SubmissionRejected(assignmentId, userId) THEN 500
    ELSE 201

\* 400 without file part, 500 from the catch block, 201 otherwise
SubmitAssignmentStatus(hasFile, assignmentId, userId, storeUp) ==
    IF ~hasFile THEN 400
    ELSE IF ~storeUp \/ SubmissionRejected(assignmentId, userId) THEN 500
    ELSE 201

\* a grade column whose default is not 0
SubmitAssignmentRows_OtherDefault(rows, time, hasFile, originalname, assignmentId, userId, storeUp) ==
    IF SubmitAssignmentStatus(hasFile, assignmentId, userId, storeUp) = 201
    THEN Append(rows,
             [id |-> Len(rows) + 1, assignmentId |-> ToNumber(assignmentId),
              userId |-> ToNumber(userId), fileName |-> originalname,
              filePath |-> StoredName(time, originalname), grade |-> 100])
    ELSE rows

\* the Submission table after the call; grade takes the column default
SubmitAssignmentRows(rows, time, hasFile, originalname, assignmentId, userId, storeUp) ==
    IF SubmitAssignmentStatus(hasFile, assignmentId, userId, storeUp) = 201
    THEN Append(rows,
             [id |-> Len(rows) + 1, assignmentId |-> ToNumber(assignmentId),
              userId |-> ToNumber(userId), fileName |-> originalname,
              filePath |-> StoredName(time, originalname), grade |-> 0])
    ELSE rows

\* upload.single("file") and the handler up to its await, as for /upload:
\* 400 without file part; otherwise the file is on disk and the handler is
\* suspended in prisma.submission.create
SubmitAssignmentReceive(hasFile, originalname, assignmentId, userId) ==
    /\ disk' = UploadFileDisk(disk, hasFile, now, originalname)
    /\ IF ~hasFile
       THEN /\ resp' = Response("submitAssignment",
                        SubmitAssignmentStatus(FALSE, assignmentId, userId, TRUE), {})
            /\ UNCHANGED inflight
       ELSE /\ FreeSlots # {}
            /\ inflight' = [inflight EXCEPT ![FirstFree] =
                   [op |-> "submitAssignment", time |-> now,
                    originalname |-> originalname, assignmentId |-> assignmentId,
                    userId |-> userId]]
            /\ resp' = NoResp
    /\ UNCHANGED <<users, classRooms, classMembers, fileUploads, assignments,
                   assignedTo, comments, submissions, posts, now>>

\* prisma.submission.create completes or throws, and the handler answers
SubmitAssignmentInsert(s, storeUp) ==
    /\ inflight[s].op = "submitAssignment"
    /\ submissions' = SubmitAssignmentRows(submissions, inflight[s].time, TRUE,
                                           inflight[s].originalname,
                                           inflight[s].assignmentId, inflight[s].userId,
                                           storeUp)
    /\ resp' = Response("submitAssignment",
                 SubmitAssignmentStatus(TRUE, inflight[s].assignmentId,
                                        inflight[s].userId, storeUp),
                 IF SubmitAssignmentStatus(TRUE, inflight[s].assignmentId,
                                           inflight[s].userId, storeUp) = 201
                 THEN {Len(submissions) + 1} ELSE {})
    /\ inflight' = [inflight EXCEPT ![s] = Idle]
    /\ UNCHANGED <<users, classRooms, classMembers, fileUploads, assignments,
                   assignedTo, comments, posts, disk, now>>

\* ------------------------------------------ GET /api/classrooms/:classId/files
\* no validators and no lookup of the classroom: 200, or 500 from the catch
ListFilesStatus(classId, storeUp) ==
    IF ~storeUp \/ ToNumber(classId) = NaN THEN 500 ELSE 200

FilesOf(files, classId) == {f.id : f \in {g \in Rows(files) : g.classId = classId}}

ListFiles(classId, storeUp) ==
    /\ resp' = Response("listFiles", ListFilesStatus(classId, storeUp),
                 IF ListFilesStatus(classId, storeUp) = 200
                 THEN FilesOf(fileUploads, ToNumber(classId)) ELSE {})
    /\ UNCHANGED <<store, now, inflight>>

\* ---------------------------------------- GET /api/classrooms/:classId/members
ListMembersStatus(classId, storeUp) ==
    IF ~IsPositiveInt(classId) THEN 400
    ELSE IF ~storeUp THEN 500
    ELSE 200

ListMembers(classId, storeUp) ==
    /\ resp' = Response("listMembers", ListMembersStatus(classId, storeUp),
                 IF ListMembersStatus(classId, storeUp) = 200
                 THEN {m.id : m \in {n \in Rows(classMembers) : n.classId = classId}}
                 ELSE {})
    /\ UNCHANGED <<store, now, inflight>>

\* ------------------------- POST /api/classrooms/:classId/files/:fileId/comments
\* content is a required column, fileId and authorId are foreign keys
CommentRejected(content, fileId, authorId) ==
    \/ content = NoString
    \/ ToNumber(fileId) \notin Ids(fileUploads)
    \/ ToNumber(authorId) \notin users

AddCommentStatus(content, fileId, authorId, storeUp) ==
    IF ~storeUp \/ CommentRejected(content, fileId, authorId) THEN 500 ELSE 201

AddComment(content, fileId, authorId, storeUp) ==
    /\ IF AddCommentStatus(content, fileId, authorId, storeUp) = 201
       THEN /\ comments' = Append(comments,
                   [id |-> Len(comments) + 1, content |-> content,
                    fileId |-> ToNumber(fileId), authorId |-> ToNumber(authorId)])
            /\ resp' = Response("addComment", 201, {Len(comments) + 1})
       ELSE /\ resp' = Response("addComment", 500, {})
            /\ UNCHANGED comments
    /\ UNCHANGED <<users, classRooms, classMembers, fileUploads, assignments,
                   assignedTo, submissions, posts, disk, now, inflight>>

\* ----------------------------------- GET /api/classrooms/files/:fileId/comments
ListCommentsStatus(fileId, storeUp) ==
    IF ~IsPositiveInt(fileId) THEN 400
    ELSE IF ~storeUp THEN 500
    ELSE 200

ListComments(fileId, storeUp) ==
    /\ resp' = Response("listComments", ListCommentsStatus(fileId, storeUp),
                 IF ListCommentsStatus(fileId, storeUp) = 200
                 THEN {c.id : c \in {d \in Rows(comments) : d.fileId = fileId}}
                 ELSE {})
    /\ UNCHANGED <<store, now, inflight>>

\* ------------------------------ GET /api/classrooms/:classId/:userId/assignments
\* a handler whose test of userId could succeed
ListAssignmentsStatus_Unauthenticated(classId, userId, storeUp) ==
    IF userId = Undefined THEN 401
    ELSE IF ~storeUp \/ ToNumber(classId) = NaN \/ ToNumber(userId) = NaN THEN 500
    ELSE 200

\* The route parameter userId is never empty, so the 401 branch is not taken.
ListAssignmentsStatus(classId, userId, storeUp) ==
    IF ~storeUp \/ ToNumber(classId) = NaN \/ ToNumber(userId) = NaN THEN 500
    ELSE 200

\* an included relation without its where clause
Include_Unfiltered(rows, assignmentId, userId) ==
    {r.id : r \in {q \in Rows(rows) : q.assignmentId = assignmentId}}

\* include: { assignedTo: { where: { userId } }, submissions: { where: { userId } } }
Include(rows, assignmentId, userId) ==
    {r.id : r \in {q \in Rows(rows) :
                      q.assignmentId = assignmentId /\ q.userId = userId}}

\* prisma.assignment.findMany({ where: { classId }, include })
ListAssignmentsBody(classId, userId) ==
    {[id |-> a.id,
      assignedTo |-> Include(assignedTo, a.id, userId),
      submissions |-> Include(submissions, a.id, userId)] :
        a \in {b \in Rows(assignments) : b.classId = classId}}

ListAssignments(classId, userId, storeUp) ==
    /\ resp' = Response("listAssignments", ListAssignmentsStatus(classId, userId, storeUp),
                 IF ListAssignmentsStatus(classId, userId, storeUp) = 200
                 THEN ListAssignmentsBody(ToNumber(classId), ToNumber(userId))
                 ELSE {})
    /\ UNCHANGED <<store, now, inflight>>

\* ------------------------------- GET /api/classrooms/:assignmentId/submissions
ListSubmissionsStatus(assignmentId, storeUp) ==
    IF ~storeUp \/ ToNumber(assignmentId) = NaN THEN 500 ELSE 200

ListSubmissions(assignmentId, storeUp) ==
    /\ resp' = Response("listSubmissions", ListSubmissionsStatus(assignmentId, storeUp),
                 IF ListSubmissionsStatus(assignmentId, storeUp) = 200
                 THEN {r.id : r \in {q \in Rows(submissions) :
                                        q.assignmentId = assignmentId}}
                 ELSE {})
    /\ UNCHANGED <<store, now, inflight>>

\* ------------------------------------------------------------ POST /api/posts
\* title, content and postType are required columns, postType of the enum
\* PostType; classRoomId and authorId are foreign keys, passed as received
PostRejected(title, content, classRoomId, authorId, postType) ==
    \/ title = NoString
    \/ content = NoString
    \/ postType \notin PostTypes
    \/ classRoomId \notin Ids(classRooms)
    \/ authorId \notin users

\* app.use("/api/posts", postRoute) of the build's index.ts
PostsMounted(build) == "/api/posts" \in Mounts(build.index)

\* prisma.post of the build's client; undefined without the model, and the
\* call on it throws inside the try block
HasPostDelegate(build) == "Post" \in Models(build.schema)

\* 404 from Express when no router is mounted on the path; 500 from the
\* catch block when prisma.post.create throws, is refused or fails
CreatePostStatus(build, title, content, classRoomId, authorId, postType, storeUp) ==
    IF ~PostsMounted(build) THEN 404
    ELSE IF \/ ~HasPostDelegate(build)
            \/ ~storeUp
            \/ PostRejected(title, content, classRoomId, authorId, postType)
    THEN 500
    ELSE 201

CreatePost(build, title, content, classRoomId, authorId, postType, storeUp) ==
    /\ IF CreatePostStatus(build, title, content, classRoomId, authorId, postType,
                           storeUp) = 201
       THEN /\ posts' = Append(posts,
                   [id |-> Len(posts) + 1, title |-> title, content |-> content,
                    classRoomId |-> classRoomId, authorId |-> authorId,
                    postType |-> postType])
            /\ resp' = Response("createPost", 201, {Len(posts) + 1})
       ELSE /\ resp' = Response("createPost",
                         CreatePostStatus(build, title, content, classRoomId, authorId,
                                          postType, storeUp), {})
            /\ UNCHANGED posts
    /\ UNCHANGED <<users, classRooms, classMembers, fileUploads, assignments,
                   assignedTo, comments, submissions, disk, now, inflight>>

\* ---------------------------------------------- GET /api/posts/:classRoomId/posts
\* parseInt(classRoomId) of a non-numeric parameter is NaN
ListPostsStatus(build, classRoomId, storeUp) ==
    IF ~PostsMounted(build) THEN 404
    ELSE IF ~HasPostDelegate(build) \/ ~storeUp \/ ToNumber(classRoomId) = NaN THEN 500
    ELSE 200

ListPosts(build, classRoomId, storeUp) ==
    /\ resp' = Response("listPosts", ListPostsStatus(build, classRoomId, storeUp),
                 IF ListPostsStatus(build, classRoomId, storeUp) = 200
                 THEN {q.id : q \in {r \in Rows(posts) : r.classRoomId = classRoomId}}
                 ELSE {})
    /\ UNCHANGED <<store, now, inflight>>

\* Date.now() advances
Tick ==
    /\ now' = now + 1
    /\ resp' = NoResp
    /\ UNCHANGED <<comments, submissions, posts, users, classRooms, classMembers, fileUploads, assignments,
                   assignedTo, disk, inflight>>

\* ---------------------------------------------------------- specifications
\* Requests, each guarded by the bound of the table it inserts into.
DoCreateClassroom ==
    /\ Len(classRooms) < MaxClasses
    /\ Len(classMembers) < MaxMembers
    /\ \E name \in NameInputs, description \in NameInputs,
          creatorId \in UserIdInputs, storeUp \in BOOLEAN :
          CreateClassroom(name, description, creatorId, storeUp)

\* A createClassroom that is refused inserts nothing and needs no room.
DoCreateClassroomRefused ==
    /\ \E name \in NameInputs, description \in NameInputs,
          creatorId \in UserIdInputs, storeUp \in BOOLEAN :
          CreateClassroom(name, description, creatorId, storeUp)
    /\ resp'.status # 201

DoAddMember ==
    /\ Len(classMembers) < MaxMembers
    /\ \E classId \in ClassIdInputs, userId \in UserIdInputs,
          role \in AddMemberRoleInputs, storeUp \in BOOLEAN :
          AddMember(classId, userId, role, storeUp)

DoUpdateMemberRole ==
    \E classId \in ClassIdInputs, userId \in UnvalidatedUserIds, role \in RoleInputs,
       storeUp \in BOOLEAN :
          UpdateMemberRole(classId, userId, role, storeUp)

DoListUserClasses ==
    \E userId \in UserIdInputs, storeUp \in BOOLEAN :
          ListUserClasses(userId, storeUp)

DoListAvailableMembersUsers ==
    \E classId \in ClassIdInputs, currentUserId \in UserIdInputs, storeUp \in BOOLEAN :
          ListAvailableMembersUsers(classId, currentUserId, storeUp)

DoListAvailableMembersFilter ==
    \E s \in Slots, storeUp \in BOOLEAN : ListAvailableMembersFilter(s, storeUp)

\* how the client treats NaN matters when fileId is missing
DoCreateAssignmentInsert ==
    /\ Len(assignments) < MaxAssignments
    /\ \E classId \in ClassIdInputs, title \in TextInputs,
          createdBy \in UnvalidatedUserIds, storeUp \in BOOLEAN :
          \/ \E nanAsNull \in BOOLEAN :
                CreateAssignmentInsert(classId, title, createdBy, Undefined,
                                       nanAsNull, storeUp)
          \/ \E fileId \in FileIdInputs \ {Undefined} :
                CreateAssignmentInsert(classId, title, createdBy, fileId, TRUE, storeUp)

DoCreateAssignmentFetch ==
    \E s \in Slots, storeUp \in BOOLEAN : CreateAssignmentFetch(s, storeUp)

DoCreateAssignmentFanOut ==
    \E s \in Slots, storeUp \in BOOLEAN : CreateAssignmentFanOut(s, storeUp)

\* the body of a request matters when it carries a file
DoUploadFileReceive ==
    /\ Len(fileUploads) < MaxFiles
    /\ Cardinality(disk) <= MaxFiles
    /\ \/ \E originalname \in OriginalNames, fileType \in TextInputs,
             userId \in UnvalidatedUserIds, classId \in ClassIdInputs,
             fileName \in TextInputs :
             UploadFileReceive(TRUE, originalname, fileType, userId, classId, fileName)
       \/ \E userId \in UnvalidatedUserIds, classId \in ClassIdInputs :
             UploadFileReceive(FALSE, "hw.pdf", "text", userId, classId, "text")

DoUploadFileInsert ==
    \E s \in Slots, storeUp \in BOOLEAN : UploadFileInsert(s, storeUp)

DoSubmitAssignmentReceive ==
    /\ Len(submissions) < MaxSubmissions
    /\ Cardinality(disk) <= MaxFiles
    /\ \/ \E originalname \in OriginalNames, assignmentId \in AssignmentIdInputs,
             userId \in UnvalidatedUserIds :
             SubmitAssignmentReceive(TRUE, originalname, assignmentId, userId)
       \/ \E assignmentId \in AssignmentIdInputs, userId \in UnvalidatedUserIds :
             SubmitAssignmentReceive(FALSE, "hw.pdf", assignmentId, userId)

DoSubmitAssignmentInsert ==
    \E s \in Slots, storeUp \in BOOLEAN : SubmitAssignmentInsert(s, storeUp)

DoListFiles ==
    \E classId \in ClassIdInputs, storeUp \in BOOLEAN : ListFiles(classId, storeUp)

DoListMembers ==
    \E classId \in ClassIdInputs, storeUp \in BOOLEAN : ListMembers(classId, storeUp)

DoAddComment ==
    /\ Len(comments) < MaxComments
    /\ \E content \in TextInputs, fileId \in FileIdInputs,
          authorId \in UnvalidatedUserIds, storeUp \in BOOLEAN :
          AddComment(content, fileId, authorId, storeUp)

DoListComments ==
    \E fileId \in FileIdInputs, storeUp \in BOOLEAN : ListComments(fileId, storeUp)

DoListAssignments ==
    \E classId \in ClassIdInputs, userId \in UnvalidatedUserIds, storeUp \in BOOLEAN :
          ListAssignments(classId, userId, storeUp)

DoListSubmissions ==
    \E assignmentId \in AssignmentIdInputs, storeUp \in BOOLEAN :
          ListSubmissions(assignmentId, storeUp)

DoCreatePost ==
    /\ Len(posts) < MaxPosts
    /\ \E build \in Builds, text \in PostTextInputs,
          classRoomId \in 1..(MaxClasses + 1), authorId \in 1..(MaxUsers + 1),
          postType \in PostTypeInputs, storeUp \in BOOLEAN :
          CreatePost(build, text[1], text[2], classRoomId, authorId, postType,
                     storeUp)

DoListPosts ==
    \E build \in Builds, classRoomId \in ClassIdInputs, storeUp \in BOOLEAN :
          ListPosts(build, classRoomId, storeUp)

DoTick ==
    /\ now < MaxTime
    /\ Tick

\* Classrooms, memberships and roles
Next ==
    \/ DoCreateClassroom
    \/ DoCreateClassroomRefused
    \/ DoAddMember
    \/ DoUpdateMemberRole
    \/ DoListUserClasses

Spec == Init /\ [][Next]_vars

\* The two reads of available-members, interleaved with membership changes
NextAvailable ==
    \/ DoCreateClassroom
    \/ DoAddMember
    \/ DoListAvailableMembersUsers
    \/ DoListAvailableMembersFilter

SpecAvailable == Init /\ [][NextAvailable]_vars

\* Assignments over classrooms and memberships
NextAssign ==
    \/ DoCreateClassroom
    \/ DoAddMember
    \/ DoCreateAssignmentInsert
    \/ DoCreateAssignmentFetch
    \/ DoCreateAssignmentFanOut

SpecAssign == Init /\ [][NextAssign]_vars

\* Uploads over classrooms
NextFiles ==
    \/ DoCreateClassroom
    \/ DoUploadFileReceive
    \/ DoUploadFileInsert
    \/ DoTick

SpecFiles == Init /\ [][NextFiles]_vars

\* Submissions over assignments
NextSubmit ==
    \/ DoCreateClassroom
    \/ DoCreateAssignmentInsert
    \/ DoCreateAssignmentFetch
    \/ DoCreateAssignmentFanOut
    \/ DoSubmitAssignmentReceive
    \/ DoSubmitAssignmentInsert
    \/ DoTick

SpecSubmit == Init /\ [][NextSubmit]_vars

\* Listing the files of a class
\* addMember where the membership table takes one row more, so that a pair
\* of a class with its creator can get a second addMember
DoAddMemberAgain ==
    /\ Len(classMembers) <= MaxMembers
    /\ \E classId \in ClassIdInputs, userId \in UserIdInputs, storeUp \in BOOLEAN :
          AddMember(classId, userId, NoString, storeUp)

NextMembers ==
    \/ DoCreateClassroom
    \/ DoAddMemberAgain
    \/ DoListMembers
    \/ DoListUserClasses

SpecMembers == Init /\ [][NextMembers]_vars

\* uploads and submissions on one clock
NextStoredNames ==
    \/ DoCreateClassroom
    \/ DoCreateAssignmentInsert
    \/ DoCreateAssignmentFetch
    \/ DoCreateAssignmentFanOut
    \/ DoUploadFileReceive
    \/ DoUploadFileInsert
    \/ DoSubmitAssignmentReceive
    \/ DoSubmitAssignmentInsert
    \/ DoTick

SpecStoredNames == Init /\ [][NextStoredNames]_vars

\* assignments, their fan-out, submissions and the listing
NextListAssignments ==
    \/ DoCreateClassroom
    \/ DoAddMember
    \/ DoCreateAssignmentInsert
    \/ DoCreateAssignmentFetch
    \/ DoCreateAssignmentFanOut
    \/ DoSubmitAssignmentReceive
    \/ DoSubmitAssignmentInsert
    \/ DoListAssignments
    \/ DoTick

SpecListAssignments == Init /\ [][NextListAssignments]_vars

\* submissions, and requests of other handlers after them
NextGrades ==
    \/ DoCreateClassroom
    \/ DoCreateAssignmentInsert
    \/ DoCreateAssignmentFetch
    \/ DoCreateAssignmentFanOut
    \/ DoSubmitAssignmentReceive
    \/ DoSubmitAssignmentInsert
    \/ DoUpdateMemberRole
    \/ DoListSubmissions
    \/ DoTick

SpecGrades == Init /\ [][NextGrades]_vars

NextListFiles ==
    \/ DoCreateClassroom
    \/ DoUploadFileReceive
    \/ DoUploadFileInsert
    \/ DoListFiles
    \/ DoTick

SpecListFiles == Init /\ [][NextListFiles]_vars

\* Posts over classrooms
NextPosts ==
    \/ DoCreateClassroom
    \/ DoCreatePost
    \/ DoListPosts

SpecPosts == Init /\ [][NextPosts]_vars

\* Rows in the tables that requests insert into one at a time
TotalRows ==
    Len(classRooms) + Len(classMembers) + Len(fileUploads) + Len(comments)
    + Len(assignments) + Len(submissions) + Len(posts)

\* The requests in the specification of all handlers.  Each field takes a
\* value that the handler accepts and, for the tests that can refuse the
\* request (a validator, a foreign key, a required column, the enum of the
\* column), a value that is refused; the store works or fails.  A request
\* that inserts arrives while the store holds fewer than MaxRows of the rows
\* that requests insert one at a time, and a file arrives while the disk
\* has room for it: a classroom with its creator's row and two more rows,
\* such as a file and a comment on it, or an assignment and a submission.
ReqCreateClassroom ==
    /\ Len(classRooms) < MaxClasses
    /\ Len(classMembers) < MaxMembers
    /\ \E name \in NameInputs, creatorId \in {0, 1, MaxUsers + 1}, storeUp \in BOOLEAN :
          CreateClassroom(name, "Math101", creatorId, storeUp)
    /\ TotalRows' <= MaxRows

ReqAddMember ==
    /\ Len(classMembers) < MaxMembers
    /\ \E classId \in {1, MaxClasses + 1}, userId \in {0, 1, MaxUsers},
          role \in AddMemberRoleInputs, storeUp \in BOOLEAN :
          AddMember(classId, userId, role, storeUp)
    /\ TotalRows' <= MaxRows

ReqUpdateMemberRole ==
    \E classId \in {1, MaxClasses + 1}, userId \in {1, MaxUsers},
       role \in RoleInputs, storeUp \in BOOLEAN :
          UpdateMemberRole(classId, userId, role, storeUp)

ReqListAvailableMembersUsers ==
    \E currentUserId \in {0, 1}, storeUp \in BOOLEAN :
          ListAvailableMembersUsers(1, currentUserId, storeUp)

ReqUploadFileReceive ==
    /\ Len(fileUploads) < MaxFiles
    /\ Cardinality(disk) < MaxFiles
    /\ \/ /\ TotalRows < MaxRows
          /\ \E userId \in {Undefined, 1}, fileType \in TextInputs :
                UploadFileReceive(TRUE, "hw.pdf", fileType, userId, 1, "text")
       \/ UploadFileReceive(FALSE, "hw.pdf", "text", 1, 1, "text")

ReqAddComment ==
    /\ Len(comments) < MaxComments
    /\ \E content \in TextInputs, authorId \in {Undefined, 1}, storeUp \in BOOLEAN :
          AddComment(content, 1, authorId, storeUp)
    /\ TotalRows' <= MaxRows

ReqCreateAssignmentInsert ==
    /\ Len(assignments) < MaxAssignments
    /\ \E title \in TextInputs, createdBy \in {Undefined, 1},
          nanAsNull \in BOOLEAN, storeUp \in BOOLEAN :
          CreateAssignmentInsert(1, title, createdBy, Undefined, nanAsNull, storeUp)
    /\ TotalRows' <= MaxRows

ReqSubmitAssignmentReceive ==
    /\ Len(submissions) < MaxSubmissions
    /\ Cardinality(disk) < MaxFiles
    /\ \/ /\ TotalRows < MaxRows
          /\ \E userId \in {Undefined, 1} :
                SubmitAssignmentReceive(TRUE, "hw.pdf", 1, userId)
       \/ SubmitAssignmentReceive(FALSE, "hw.pdf", 1, 1)

ReqCreatePost ==
    /\ Len(posts) < MaxPosts
    /\ \E build \in Builds, postType \in {"MESSAGE", "NOTE"}, storeUp \in BOOLEAN :
          CreatePost(build, "text", "text", 1, 1, postType, storeUp)
    /\ TotalRows' <= MaxRows

ReqListUserClasses ==
    \E userId \in {0, 1}, storeUp \in BOOLEAN : ListUserClasses(userId, storeUp)

ReqListMembers ==
    \E classId \in {Undefined, 1}, storeUp \in BOOLEAN : ListMembers(classId, storeUp)

ReqListFiles ==
    \E classId \in {Undefined, 1}, storeUp \in BOOLEAN : ListFiles(classId, storeUp)

ReqListComments ==
    \E fileId \in {Undefined, 1}, storeUp \in BOOLEAN : ListComments(fileId, storeUp)

ReqListAssignments ==
    \E userId \in {Undefined, 1}, storeUp \in BOOLEAN :
          ListAssignments(1, userId, storeUp)

ReqListSubmissions ==
    \E assignmentId \in {Undefined, 1}, storeUp \in BOOLEAN :
          ListSubmissions(assignmentId, storeUp)

ReqListPosts ==
    \E build \in Builds, classRoomId \in {Undefined, 1}, storeUp \in BOOLEAN :
          ListPosts(build, classRoomId, storeUp)

\* Every handler of both routers and the clock.  A request is handled
\* whenever it arrives, also while a handler is suspended in an await.
NextAll ==
    \/ ReqCreateClassroom
    \/ ReqAddMember
    \/ ReqUpdateMemberRole
    \/ ReqListUserClasses
    \/ ReqListMembers
    \/ ReqListAvailableMembersUsers
    \/ DoListAvailableMembersFilter
    \/ ReqUploadFileReceive
    \/ DoUploadFileInsert
    \/ ReqListFiles
    \/ ReqAddComment
    \/ ReqListComments
    \/ ReqCreateAssignmentInsert
    \/ DoCreateAssignmentFetch
    \/ DoCreateAssignmentFanOut
    \/ ReqListAssignments
    \/ ReqSubmitAssignmentReceive
    \/ DoSubmitAssignmentInsert
    \/ ReqListSubmissions
    \/ ReqCreatePost
    \/ ReqListPosts
    \/ DoTick

SpecAll == Init /\ [][NextAll]_vars

\* The event loop resumes the handler suspended in slot s once the promise
\* it awaits has settled, whether the promise was fulfilled or rejected.
Resume(s) ==
    \E storeUp \in BOOLEAN :
       \/ ListAvailableMembersFilter(s, storeUp)
       \/ CreateAssignmentFetch(s, storeUp)
       \/ CreateAssignmentFanOut(s, storeUp)
       \/ UploadFileInsert(s, storeUp)
       \/ SubmitAssignmentInsert(s, storeUp)

\* All handlers, every suspended handler being resumed in the end
SpecAllLive == SpecAll /\ \A s \in 1..MaxInflight : WF_vars(Resume(s))

\* ------------------------------------------------------------------ claims
\* Rows of a table that were there before a step are still there after it.
Extends(before, after) ==
    /\ Len(after) >= Len(before)
    /\ \A i \in 1..Len(before) : after[i] = before[i]

Last(t) == t[Len(t)]

\* C1: a createClassroom that answers 201 adds exactly one ClassRoom row,
\* created by creatorId, and exactly one ClassMember row, which is the ADMIN
\* membership of creatorId in the new classroom; no other row is added.
C1_CreateAddsAdminMembership ==
    [][(resp'.op = "createClassroom" /\ resp'.status = 201) =>
       \A name \in NameInputs, description \in NameInputs,
          creatorId \in UserIdInputs, storeUp \in BOOLEAN :
          CreateClassroom(name, description, creatorId, storeUp)
          => /\ name # "" /\ description # "" /\ creatorId > 0
             /\ Len(classRooms') = Len(classRooms) + 1
             /\ Extends(classRooms, classRooms')
             /\ Last(classRooms').createdBy = creatorId
             /\ Len(classMembers') = Len(classMembers) + 1
             /\ Extends(classMembers, classMembers')
             /\ Last(classMembers').classId = Last(classRooms').id
             /\ Last(classMembers').userId = creatorId
             /\ Last(classMembers').role = "ADMIN"
             /\ Last(classRooms').id \notin Ids(classRooms)
             /\ UNCHANGED <<comments, submissions, posts, users, fileUploads, assignments, assignedTo>>]_vars

\* a 201 answer whose classroom is in the store with its ADMIN membership
C1_Witness ==
    /\ resp.op = "createClassroom"
    /\ resp.status = 201
    /\ \E c \in Rows(classRooms) :
          /\ c.id \in resp.body
          /\ \E m \in Rows(classMembers) :
                m.classId = c.id /\ m.userId = c.createdBy /\ m.role = "ADMIN"

\* C2: in every state every classroom has a membership row of its creator.
C2_CreatorIsMember ==
    \A c \in Rows(classRooms) :
        \E m \in Rows(classMembers) : m.classId = c.id /\ m.userId = c.createdBy

\* a classroom exists and the last request was a createClassroom that failed
C2_Witness ==
    /\ classRooms # <<>>
    /\ resp.op = "createClassroom"
    /\ resp.status = 500

\* Number of membership rows of classId whose user is not createdBy
OtherRowCount(members, classId, createdBy) ==
    Cardinality({i \in 1..Len(members) :
                    members[i].classId = classId /\ members[i].userId # createdBy})

\* Rows of assignedTo that belong to assignment a
AssignedRows(rows, a) == {r \in Rows(rows) : r.assignmentId = a}

\* Assignments whose handler is suspended between two persistence calls
InFlightAssignments(fl) ==
    {fl[s].assignmentId : s \in {t \in DOMAIN fl : fl[t].op = "createAssignment"}}

\* C3 as stated: a createAssignment that answers 201 for a class that has N
\* membership rows with userId other than createdBy adds exactly N
\* AssignmentAssignmentTo rows, N counted in the store the request answers in.
C3_FanOutCountsCurrentMembers ==
    [][(resp'.op = "createAssignment" /\ resp'.status = 201) =>
       \A s \in Slots :
          CreateAssignmentFanOut(s, TRUE)
          => Len(assignedTo') - Len(assignedTo) =
                OtherRowCount(classMembers, inflight[s].classId, inflight[s].createdBy)]_vars

\* C3 amended: the member fetch of createAssignment returns the N membership
\* rows that the class has at that moment with userId other than createdBy,
\* and a 201 answer adds exactly one AssignmentAssignmentTo row per fetched
\* membership row, all for the new assignment, and nothing else.
C3_FanOutCountsFetchedMembers ==
    [][/\ \A s \in Slots :
            (CreateAssignmentFetch(s, TRUE) /\ resp' = NoResp)
            => /\ Len(inflight'[s].members) =
                     OtherRowCount(classMembers, inflight[s].classId, inflight[s].createdBy)
               /\ \A u \in users :
                     Cardinality({i \in 1..Len(inflight'[s].members) :
                                     inflight'[s].members[i] = u}) =
                     Cardinality({i \in 1..Len(classMembers) :
                                     /\ classMembers[i].classId = inflight[s].classId
                                     /\ classMembers[i].userId = u
                                     /\ u # inflight[s].createdBy})
       /\ (resp'.op = "createAssignment" /\ resp'.status = 201) =>
          \A s \in Slots :
            CreateAssignmentFanOut(s, TRUE)
            => /\ Extends(assignedTo, assignedTo')
               /\ Len(assignedTo') - Len(assignedTo) = Len(inflight[s].members)
               /\ \A i \in 1..Len(inflight[s].members) :
                     /\ assignedTo'[Len(assignedTo) + i].assignmentId = inflight[s].assignmentId
                     /\ assignedTo'[Len(assignedTo) + i].userId = inflight[s].members[i]
               /\ UNCHANGED <<comments, submissions, posts, users, classRooms, classMembers, fileUploads, assignments>>]_vars

\* a 201 answer whose assignment got a row for a member while the creator,
\* a member too, got none
C3_Witness ==
    /\ resp.op = "createAssignment"
    /\ resp.status = 201
    /\ \E a \in Rows(assignments) :
          /\ a.id \in resp.body
          /\ AssignedRows(assignedTo, a.id) # {}
          /\ \A r \in AssignedRows(assignedTo, a.id) : r.userId # a.createdBy
          /\ \E m \in Rows(classMembers) :
                m.classId = a.classId /\ m.userId = a.createdBy

\* C4: a 200 answer of listAvailableMembers(classId, currentUserId) holds
\* exactly the users other than currentUserId that have no membership row
\* for classId.
C4_AvailableExcludesSelfAndMembers ==
    [][(resp'.op = "listAvailableMembers" /\ resp'.status = 200) =>
       \A s \in Slots :
          ListAvailableMembersFilter(s, TRUE)
          => resp'.body =
                {u \in users :
                    /\ u # inflight[s].currentUserId
                    /\ ~\E m \in Rows(classMembers) :
                           m.classId = inflight[s].classId /\ m.userId = u}]_vars

\* an answer that holds a user and leaves out a user who has a membership
C4_Witness ==
    /\ resp.op = "listAvailableMembers"
    /\ resp.status = 200
    /\ resp.body # {}
    /\ \E m \in Rows(classMembers) : m.userId \notin resp.body

\* Users other than userId with a membership row for classId
MemberUsersExcept(classId, userId) ==
    {u \in users : u # userId /\ \E m \in Rows(classMembers) :
                                    m.classId = classId /\ m.userId = u}

\* C5 as stated: the size of a 200 answer of listAvailableMembers(classId,
\* userId) is (number of users) - 1 - (members of classId other than userId).
C5_AvailableSize ==
    [][(resp'.op = "listAvailableMembers" /\ resp'.status = 200) =>
       \A s \in Slots :
          ListAvailableMembersFilter(s, TRUE)
          => Cardinality(resp'.body) =
                Cardinality(users) - 1
                - Cardinality(MemberUsersExcept(inflight[s].classId,
                                                inflight[s].currentUserId))]_vars

\* C5 amended: when userId is an existing user the size is (number of users)
\* - 1 - (distinct users other than userId with a membership row for
\* classId); when userId is no existing user nothing is subtracted for it.
C5_AvailableSizeForExistingUser ==
    [][(resp'.op = "listAvailableMembers" /\ resp'.status = 200) =>
       \A s \in Slots :
          ListAvailableMembersFilter(s, TRUE)
          => Cardinality(resp'.body) =
                Cardinality(users)
                - (IF inflight[s].currentUserId \in users THEN 1 ELSE 0)
                - Cardinality(MemberUsersExcept(inflight[s].classId,
                                                inflight[s].currentUserId))]_vars

\* an answer of size one in a store where a user has two membership rows
\* for one class
C5_Witness ==
    /\ resp.op = "listAvailableMembers"
    /\ resp.status = 200
    /\ Cardinality(resp.body) = 1
    /\ \E i, j \in 1..Len(classMembers) :
          /\ i # j
          /\ classMembers[i].classId = classMembers[j].classId
          /\ classMembers[i].userId = classMembers[j].userId

\* No membership row for the pair
NoMemberRow(classId, userId) ==
    ~\E m \in Rows(classMembers) : m.classId = classId /\ m.userId = userId

\* C6 as stated: updateMemberRole for a pair without membership row answers
\* 404 and changes no row of any table (the store itself working).
C6_MissingPairIs404 ==
    [][(resp'.op = "updateMemberRole") =>
       \A classId \in ClassIdInputs, userId \in UnvalidatedUserIds, role \in RoleInputs :
          (UpdateMemberRole(classId, userId, role, TRUE) /\ NoMemberRow(classId, userId))
          => /\ resp'.status = 404
             /\ UNCHANGED store]_vars

\* C7: no step removes or rewrites a classroom once it was created, and a
\* 200 answer of listUserClasses(u) holds every classroom created by u,
\* whatever requests have run since the classroom was created.
C7_CreatorListsOwnClass ==
    [][/\ Extends(classRooms, classRooms')
       /\ (resp'.op = "listUserClasses" /\ resp'.status = 200) =>
          \A userId \in UserIdInputs :
             ListUserClasses(userId, TRUE)
             => \A c \in Rows(classRooms) :
                   c.createdBy = userId => c.id \in resp'.body]_vars

\* the classroom is listed after a member was added to it and the creator's
\* role was changed
C7_Witness ==
    /\ resp.op = "listUserClasses"
    /\ resp.status = 200
    /\ \E c \in Rows(classRooms) :
          /\ c.id \in resp.body
          /\ \E m \in Rows(classMembers) :
                m.classId = c.id /\ m.userId = c.createdBy /\ m.role # "ADMIN"
          /\ \E m \in Rows(classMembers) : m.classId = c.id /\ m.userId # c.createdBy

\* C8: uploadFile without file part answers 400, adds no FileUpload row and
\* leaves the tables and the upload directory unchanged.
C8_UploadWithoutFile ==
    /\ [](\A originalname \in OriginalNames, fileType \in TextInputs,
             userId \in UnvalidatedUserIds, classId \in ClassIdInputs,
             fileName \in TextInputs, storeUp \in BOOLEAN :
             /\ UploadFileStatus(FALSE, fileType, userId, classId, fileName, storeUp) = 400
             /\ UploadFileRows(fileUploads, now, FALSE, originalname, fileType, userId,
                               classId, fileName, storeUp) = fileUploads
             /\ UploadFileDisk(disk, FALSE, now, originalname) = disk)
    /\ [][(resp'.op = "uploadFile" /\ resp'.status = 400) => UNCHANGED store]_vars

\* a 400 answer where a classroom exists that the upload could have named
C8_Witness ==
    /\ resp.op = "uploadFile"
    /\ resp.status = 400
    /\ classRooms # <<>>
    /\ fileUploads = <<>>

\* C9: createClassroom with an empty name, an empty description or a
\* creatorId that is no positive integer answers 400; with valid input and a
\* failing store or a creatorId that is no user it answers 500; in both
\* cases no ClassRoom row and no ClassMember row is added.
C9_CreateClassroomFailures ==
    /\ [](\A name \in NameInputs, description \in NameInputs,
             creatorId \in UserIdInputs, storeUp \in BOOLEAN :
             /\ (name = "" \/ description = "" \/ creatorId = Undefined \/ creatorId <= 0)
                   => CreateClassroomStatus(name, description, creatorId, storeUp) = 400
             /\ (/\ name # "" /\ description # ""
                 /\ creatorId # Undefined /\ creatorId > 0
                 /\ (~storeUp \/ creatorId \notin users))
                   => CreateClassroomStatus(name, description, creatorId, storeUp) = 500)
    /\ [][(resp'.op = "createClassroom" /\ resp'.status \in {400, 500})
             => UNCHANGED store]_vars

\* a 500 answer in a store that holds a classroom
C9_Witness ==
    /\ resp.op = "createClassroom"
    /\ resp.status = 500
    /\ Len(classRooms) = 1
    /\ Len(classMembers) = 1

\* C10: when the member fetch or the bulk insert of createAssignment fails,
\* the request answers 500 and leaves its slot, its Assignment row stays and
\* has no AssignmentAssignmentTo row; and from then on no step removes the
\* Assignment row of a finished request, gives it a row or resumes it.
C10_FailedFanOutLeavesAssignment ==
    [][/\ \A s \in Slots :
             (/\ inflight[s].op = "createAssignment"
              /\ inflight'[s] = Idle
              /\ resp'.status = 500) =>
                /\ resp'.op = "createAssignment"
                /\ inflight[s].assignmentId \in Ids(assignments')
                /\ AssignedRows(assignedTo', inflight[s].assignmentId) = {}
       /\ \A a \in Ids(assignments) \ InFlightAssignments(inflight) :
             /\ a \in Ids(assignments')
             /\ a \notin InFlightAssignments(inflight')
             /\ AssignedRows(assignedTo', a) = AssignedRows(assignedTo, a)]_vars

\* a 500 answer of a request that has left its slot, with its assignment
\* stored without rows in a class that has a member other than its creator
C10_Witness ==
    /\ resp.op = "createAssignment"
    /\ resp.status = 500
    /\ \E a \in Rows(assignments) :
          /\ a.id \notin InFlightAssignments(inflight)
          /\ AssignedRows(assignedTo, a.id) = {}
          /\ OtherRowCount(classMembers, a.classId, a.createdBy) >= 1

C12_AddMemberStoresSuppliedRole ==
    [][(resp'.op = "addMember" /\ resp'.status = 201) =>
       \A classId \in ClassIdInputs, userId \in UserIdInputs,
          role \in AddMemberRoleInputs :
          AddMember(classId, userId, role, TRUE)
          => /\ Len(classMembers') = Len(classMembers) + 1
             /\ Extends(classMembers, classMembers')
             /\ Last(classMembers').classId = classId
             /\ Last(classMembers').userId = userId
             /\ role \in Roles => Last(classMembers').role = role
             /\ role = NoString => Last(classMembers').role = "NORMAL"]_vars

\* the handlers suspended in the insert of their metadata row, and the file
\* upload.single stored for each
FileSlots == {s \in Slots : inflight[s].op \in {"uploadFile", "submitAssignment"}}
SlotFile(s) == StoredName(inflight[s].time, inflight[s].originalname)

\* C13: submitAssignment without file part answers 400 and leaves the store
\* unchanged; with a file, an existing assignment, an existing user and a
\* working store its insert answers 201 and adds exactly one Submission row,
\* for the (assignmentId, userId) of the request, and changes no other table.
C13_SubmitAssignment ==
    /\ [](\A originalname \in OriginalNames, assignmentId \in AssignmentIdInputs,
             userId \in UnvalidatedUserIds, storeUp \in BOOLEAN :
             /\ SubmitAssignmentStatus(FALSE, assignmentId, userId, storeUp) = 400
             /\ SubmitAssignmentRows(submissions, now, FALSE, originalname,
                                     assignmentId, userId, storeUp) = submissions
             /\ UploadFileDisk(disk, FALSE, now, originalname) = disk)
    /\ [](\A originalname \in OriginalNames, assignmentId \in Ids(assignments),
             userId \in users :
             /\ SubmitAssignmentStatus(TRUE, assignmentId, userId, TRUE) = 201
             /\ LET rows == SubmitAssignmentRows(submissions, now, TRUE, originalname,
                                                 assignmentId, userId, TRUE)
                IN /\ Len(rows) = Len(submissions) + 1
                   /\ Extends(submissions, rows)
                   /\ Last(rows).assignmentId = assignmentId
                   /\ Last(rows).userId = userId)
    /\ [][/\ (resp'.op = "submitAssignment" /\ resp'.status = 400)
                => UNCHANGED store
          /\ (resp'.op = "submitAssignment" /\ resp'.status = 201)
                => /\ Len(submissions') = Len(submissions) + 1
                   /\ Extends(submissions, submissions')
                   /\ Last(submissions').id \in resp'.body
                   /\ UNCHANGED <<users, classRooms, classMembers, fileUploads,
                                  assignments, assignedTo, comments, posts>>
                   /\ \E s \in FileSlots :
                         /\ inflight'[s] = Idle
                         /\ inflight[s].op = "submitAssignment"
                         /\ Last(submissions').assignmentId = inflight[s].assignmentId
                         /\ Last(submissions').userId = inflight[s].userId]_vars

\* a 201 answer whose Submission row is in the store
C13_Witness ==
    /\ resp.op = "submitAssignment"
    /\ resp.status = 201
    /\ \E r \in Rows(submissions) :
          /\ r.id \in resp.body
          /\ r.assignmentId \in Ids(assignments)
          /\ r.userId \in users

\* ---------------------------------------------------------------------- C14
Statuses == {200, 201, 400, 404, 500}

\* the status of a handler whose persistence call fails: 500, unless the
\* handler answered before it reached the call
FailureStatus(answeredBefore, status) ==
    IF answeredBefore \in {400, 404} THEN status = answeredBefore ELSE status = 500

\* 400 of the validators and of the missing file part, 404 of a route that
\* is not mounted: the answers given before any persistence call
Before(cond, status) == IF cond THEN status ELSE 0

StoreFailureAnswered ==
    /\ \A name \in NameInputs, description \in NameInputs, creatorId \in UserIdInputs :
          FailureStatus(
              Before(CreateClassroomStatus(name, description, creatorId, TRUE) = 400, 400),
              CreateClassroomStatus(name, description, creatorId, FALSE))
    /\ \A classId \in ClassIdInputs, userId \in UserIdInputs :
          /\ FailureStatus(
                 Before(~(IsPositiveInt(classId) /\ IsPositiveInt(userId)), 400),
                 AddMemberStatus(classId, userId, FALSE))
          /\ FailureStatus(
                 Before(~(IsPositiveInt(classId) /\ IsPositiveInt(userId)), 400),
                 ListAvailableMembersUsersStatus(classId, userId, FALSE))
          /\ FailureStatus(Before(~IsPositiveInt(userId), 400),
                           ListUserClassesStatus(userId, FALSE))
    /\ \A classId \in ClassIdInputs, userId \in UnvalidatedUserIds, role \in RoleInputs :
          UpdateMemberRoleStatus(classMembers, classId, userId, role, FALSE) = 500
    /\ \A classId \in ClassIdInputs, title \in TextInputs,
          createdBy \in UnvalidatedUserIds, fileId \in FileIdInputs,
          nanAsNull \in BOOLEAN :
          CreateAssignmentInsertStatus(classId, title, createdBy, fileId, nanAsNull,
                                       FALSE) = 500
    /\ \A hasFile \in BOOLEAN, fileType \in TextInputs, fileName \in TextInputs,
          userId \in UnvalidatedUserIds, classId \in ClassIdInputs :
          FailureStatus(Before(~hasFile, 400),
              UploadFileStatus(hasFile, fileType, userId, classId, fileName, FALSE))
    /\ \A hasFile \in BOOLEAN, assignmentId \in AssignmentIdInputs,
          userId \in UnvalidatedUserIds :
          FailureStatus(Before(~hasFile, 400),
              SubmitAssignmentStatus(hasFile, assignmentId, userId, FALSE))
    /\ \A classId \in ClassIdInputs :
          /\ ListFilesStatus(classId, FALSE) = 500
          /\ FailureStatus(Before(~IsPositiveInt(classId), 400),
                           ListMembersStatus(classId, FALSE))
          /\ \A userId \in UnvalidatedUserIds :
                ListAssignmentsStatus(classId, userId, FALSE) = 500
          /\ \A build \in Builds :
                FailureStatus(Before(~PostsMounted(build), 404),
                              ListPostsStatus(build, classId, FALSE))
    /\ \A fileId \in FileIdInputs :
          /\ FailureStatus(Before(~IsPositiveInt(fileId), 400),
                           ListCommentsStatus(fileId, FALSE))
          /\ \A content \in TextInputs, authorId \in UnvalidatedUserIds :
                AddCommentStatus(content, fileId, authorId, FALSE) = 500
    /\ \A assignmentId \in AssignmentIdInputs :
          ListSubmissionsStatus(assignmentId, FALSE) = 500
    /\ \A build \in Builds, text \in PostTextInputs,
          classRoomId \in 1..(MaxClasses + 1), authorId \in 1..(MaxUsers + 1),
          postType \in PostTypeInputs :
          FailureStatus(Before(~PostsMounted(build), 404),
              CreatePostStatus(build, text[1], text[2], classRoomId, authorId,
                               postType, FALSE))

\* a handler suspended between two persistence calls: the step whose call
\* fails answers 500 and ends the handler
StoreFailureStep ==
    \A s \in Slots :
       (\/ ListAvailableMembersFilter(s, FALSE)
        \/ CreateAssignmentFetch(s, FALSE)
        \/ CreateAssignmentFanOut(s, FALSE)
        \/ UploadFileInsert(s, FALSE)
        \/ SubmitAssignmentInsert(s, FALSE)) =>
          resp'.status = 500 /\ inflight'[s] = Idle

\* a step either answers, or suspends a handler, or is the clock's; a
\* handler that leaves its slot has answered
OneResponse ==
    /\ resp' = NoResp =>
          \/ now' # now /\ UNCHANGED <<store, inflight>>
          \/ \E s \in Slots : inflight'[s] # Idle /\ inflight'[s] # inflight[s]
    /\ \A s \in Slots :
          (inflight[s] # Idle /\ inflight'[s] = Idle) =>
             resp'.op = inflight[s].op /\ resp'.status \in Statuses

\* C14: every request ends in one response with a status in
\* {200, 201, 400, 404, 500}; a failing persistence call is answered with 500
\* unless the handler answered 400 (or the application 404) before the call;
\* no request is left unanswered: a handler that is suspended in an await is
\* resumed and leaves its slot, which it does with its answer.
C14_EveryRequestAnswered ==
    /\ [](resp # NoResp => resp.status \in Statuses)
    /\ []StoreFailureAnswered
    /\ [][StoreFailureStep /\ OneResponse]_vars
    /\ \A s \in 1..MaxInflight : (inflight[s] # Idle) ~> (inflight[s] = Idle)

\* an assignment was inserted, a later call of the same handler failed, and
\* the request was answered 500 with no handler left suspended
C14_Witness ==
    /\ resp.op = "createAssignment"
    /\ resp.status = 500
    /\ resp.body = {}
    /\ Len(assignments) >= 1
    /\ \A a \in Ids(assignments) : AssignedRows(assignedTo, a) = {}
    /\ FreeSlots = Slots

\* ---------------------------------------------------------------------- C15
\* the rows of a table before a step are its first rows after it, with
\* every field as it was
RowsKept ==
    /\ users \subseteq users'
    /\ Extends(classRooms, classRooms')
    /\ Extends(fileUploads, fileUploads')
    /\ Extends(comments, comments')
    /\ Extends(assignments, assignments')
    /\ Extends(assignedTo, assignedTo')
    /\ Extends(submissions, submissions')
    /\ Extends(posts, posts')

\* the same for ClassMember, but for the role of a row
MembersKeptButRole ==
    /\ Len(classMembers') >= Len(classMembers)
    /\ \A i \in 1..Len(classMembers) :
          [classMembers'[i] EXCEPT !.role = classMembers[i].role] = classMembers[i]

\* C15: no request removes a row of any table, and no request changes a
\* field of an existing row other than ClassMember.role.
C15_OnlyRoleChanges == [][UNCHANGED store \/ (RowsKept /\ MembersKeptButRole)]_vars

\* a role has been changed by updateMemberRole in a store that holds a
\* classroom, a file and a comment on the file
C15_Witness ==
    /\ resp.op = "updateMemberRole"
    /\ resp.status = 200
    /\ \E m \in Rows(classMembers) : m.role = "MODERATOR"
    /\ Len(classRooms) >= 1
    /\ Len(fileUploads) >= 1
    /\ \E c \in Rows(comments) : c.fileId \in Ids(fileUploads)

\* ---------------------------------------------------------------------- C16
\* the ClassMember table after a request, row by row: the rows of the pair
\* carry newRole(row), every other row is as it was
RolesSetTo(after, classId, userId, newRole(_)) ==
    /\ Len(after) = Len(classMembers)
    /\ \A i \in 1..Len(classMembers) :
          after[i] = IF Matches(classMembers[i], ToNumber(classId), ToNumber(userId))
                     THEN [classMembers[i] EXCEPT !.role = newRole(classMembers[i])]
                     ELSE classMembers[i]

\* C16: an updateMemberRole(classId, userId, role) answered 200 sets the role
\* of every row of the pair, duplicates included, to role and leaves every
\* row of another pair as it was; each step answered 200 is such an update
\* and changes nothing else.
C16_SuccessSetsRole ==
    /\ [](\A classId \in ClassIdInputs, userId \in UnvalidatedUserIds,
             role \in RoleInputs :
             UpdateMemberRoleStatus(classMembers, classId, userId, role, TRUE) = 200
             => LET given(m) == role IN
                /\ role \in Roles
                /\ RolesSetTo(UpdateMemberRoleRows(classMembers, classId, userId, role,
                                                   TRUE),
                              classId, userId, given))
    /\ [][(resp'.op = "updateMemberRole" /\ resp'.status = 200)
          => /\ \E classId \in ClassIdInputs, userId \in UnvalidatedUserIds,
                   role \in RoleInputs :
                   /\ UpdateMemberRoleStatus(classMembers, classId, userId, role,
                                             TRUE) = 200
                   /\ classMembers' = UpdateMemberRoleRows(classMembers, classId, userId,
                                                           role, TRUE)
             /\ UNCHANGED <<users, classRooms, fileUploads, assignments, assignedTo,
                            comments, submissions, posts, disk>>]_vars


\* two rows of one pair, both with the role a 200 answer has just set
C16_Witness ==
    /\ resp.op = "updateMemberRole"
    /\ resp.status = 200
    /\ \E i, j \in 1..Len(classMembers) :
          /\ i < j
          /\ classMembers[i].userId = classMembers[j].userId
          /\ classMembers[i].classId = classMembers[j].classId
          /\ classMembers[i].role = "MODERATOR"
          /\ classMembers[j].role = "MODERATOR"

\* ---------------------------------------------------------------------- C17
\* C17 as stated: listFiles answers 404 for a classId that references no
\* ClassRoom, and 200 with the FileUpload rows of the class otherwise.
C17_ListFilesOfMissingClassIs404 ==
    \A classId \in ClassIdInputs \ {Undefined} :
       /\ ListFilesStatus(classId, TRUE) =
             IF ToNumber(classId) \in Ids(classRooms) THEN 200 ELSE 404
       /\ (resp.op = "listFiles" /\ resp.status = 200) =>
             \E c \in Ids(classRooms) : resp.body = FilesOf(fileUploads, c)

\* ---------------------------------------------------------------------- C18
\* a body with title, content, an existing classRoomId and authorId
ValidPostBody(text, classRoomId, authorId) ==
    /\ text[1] # NoString
    /\ text[2] # NoString
    /\ classRoomId \in Ids(classRooms)
    /\ authorId \in users

\* C18 as stated: the application serves POST /api/posts, whichever copy of
\* index.ts and whichever schema it is built from; a valid body with a
\* postType of the enum is answered 201, another postType 500.
C18_PostsServed ==
    \A build \in Builds, text \in PostTextInputs,
       classRoomId \in 1..(MaxClasses + 1), authorId \in 1..(MaxUsers + 1),
       postType \in PostTypeInputs :
       ValidPostBody(text, classRoomId, authorId)
       => CreatePostStatus(build, text[1], text[2], classRoomId, authorId, postType,
                           TRUE)
             = IF postType \in PostTypes THEN 201 ELSE 500

\* ---------------------------------------------------------------------- C19
\* C19: addMember for a pair of an existing class and an existing user is
\* answered 201 whether or not the pair has rows already, and each 201 adds
\* one more row for the pair; so a pair can have any number of rows.
C19_AddMemberNeverRefusesDuplicate ==
    /\ [](\A classId \in ClassIdInputs, userId \in UserIdInputs :
             (ToNumber(classId) \in Ids(classRooms) /\ ToNumber(userId) \in users)
             => AddMemberStatus(classId, userId, TRUE) = 201)
    /\ [][(resp'.op = "addMember" /\ resp'.status = 201)
          => /\ Len(classMembers') = Len(classMembers) + 1
             /\ Extends(classMembers, classMembers')
             /\ Last(classMembers').id \in resp'.body]_vars

\* three rows of one pair: the creator's row of createClassroom, and the rows
\* of two addMember requests for the creator, the second just answered 201
C19_Witness ==
    /\ resp.op = "addMember"
    /\ resp.status = 201
    /\ Len(classMembers) = 3
    /\ classMembers[1].role = "ADMIN"
    /\ \A i \in 2..3 :
          /\ classMembers[i].userId = classMembers[1].userId
          /\ classMembers[i].classId = classMembers[1].classId
          /\ classMembers[i].role = "NORMAL"

\* ---------------------------------------------------------------------- C20
\* the stored file each FileUpload and Submission row references
StoredPaths ==
    [i \in 1..Len(fileUploads) |-> fileUploads[i].filePath]
        \o [i \in 1..Len(submissions) |-> submissions[i].filePath]

\* C20: two files stored at the same timestamp get the same filename exactly
\* when their extensions are equal, and files stored at different timestamps
\* get different filenames; upload.single stores the file of an upload or a
\* submit under the filename of the timestamp of that moment, which is new to
\* the directory when no earlier file was stored at that timestamp, and each
\* 201 stores its row with that filename.
C20_StoredNameIsTimeAndExtension ==
    /\ [](\A t1 \in 0..MaxTime, t2 \in 0..MaxTime,
             n1 \in OriginalNames, n2 \in OriginalNames :
             StoredName(t1, n1) = StoredName(t2, n2)
                <=> (t1 = t2 /\ ExtName(n1) = ExtName(n2)))
    /\ [](\A i \in 1..Len(StoredPaths) :
             /\ StoredPaths[i] \in disk
             /\ \A j \in 1..Len(StoredPaths) :
                   StoredPaths[i].time # StoredPaths[j].time
                   => StoredPaths[i] # StoredPaths[j])
    /\ [][\A s \in Slots :
             /\ (inflight[s] = Idle
                 /\ inflight'[s].op \in {"uploadFile", "submitAssignment"})
                => /\ inflight'[s].time = now
                   /\ disk' = disk \cup {StoredName(now, inflight'[s].originalname)}
                   /\ (\A f \in disk : f.time # now)
                         => StoredName(now, inflight'[s].originalname) \notin disk
             /\ (s \in FileSlots /\ inflight'[s] = Idle /\ resp'.status = 201)
                => /\ SlotFile(s) \in disk
                   /\ UNCHANGED disk
                   /\ IF inflight[s].op = "uploadFile"
                      THEN Last(fileUploads').filePath = SlotFile(s)
                      ELSE Last(submissions').filePath = SlotFile(s)]_vars

\* a FileUpload row and a Submission row reference one stored file: the
\* second request stored its file under the name of the first
C20_Witness ==
    /\ resp.status = 201
    /\ \E f \in Rows(fileUploads), s \in Rows(submissions) :
          /\ f.filePath = s.filePath
          /\ s.fileName # "hw.pdf"
    /\ Cardinality(disk) = 1

\* ---------------------------------------------------------------------- C21
\* the rows of a table that belong to an assignment and a user
RowsOfUser(rows, assignmentId, userId) ==
    {r \in Rows(rows) : r.assignmentId = assignmentId /\ r.userId = userId}

\* what C21 says of one answer
AnswerIsClassAssignments(body, classId, userId) ==
    /\ \A a \in Rows(assignments) :
          a.classId = classId <=> \E e \in body : e.id = a.id
    /\ \A e \in body :
          /\ \E a \in Rows(assignments) : a.id = e.id /\ a.classId = classId
          /\ \A r \in Rows(assignedTo) :
                r.id \in e.assignedTo <=> r \in RowsOfUser(assignedTo, e.id, userId)
          /\ \A r \in Rows(submissions) :
                r.id \in e.submissions <=> r \in RowsOfUser(submissions, e.id, userId)
          /\ e.assignedTo \subseteq Ids(assignedTo)
          /\ e.submissions \subseteq Ids(submissions)

\* C21: listAssignments(classId, userId) with numeric parameters answers 200
\* with every assignment of the class and no other, each with exactly its
\* assigned-to rows and its submissions of userId.
C21_ListAssignmentsFiltersByUser ==
    /\ [](\A classId \in ClassIdInputs \ {Undefined},
             userId \in UnvalidatedUserIds \ {Undefined} :
             /\ ListAssignmentsStatus(classId, userId, TRUE) = 200
             /\ AnswerIsClassAssignments(ListAssignmentsBody(classId, userId),
                                         classId, userId))
    /\ [][(resp'.op = "listAssignments" /\ resp'.status = 200)
          => /\ \E classId \in ClassIdInputs \ {Undefined},
                   userId \in UnvalidatedUserIds \ {Undefined} :
                   resp'.body = ListAssignmentsBody(classId, userId)
             /\ UNCHANGED store]_vars

\* the answer holds an assignment that has assigned-to rows, none of them
\* of the requesting user
C21_Witness ==
    /\ resp.op = "listAssignments"
    /\ resp.status = 200
    /\ \E e \in resp.body :
          /\ e.assignedTo = {}
          /\ AssignedRows(assignedTo, e.id) # {}

\* ---------------------------------------------------------------------- C22
\* C22: every ClassMember row has a role of the enum; updateMemberRole with
\* a role value outside the enum answers 500 and changes no row (as does,
\* with its own status, a request that carries no role at all).
C22_RolesStayInEnum ==
    /\ [](\A m \in Rows(classMembers) : m.role \in Roles)
    /\ [](\A classId \in ClassIdInputs, userId \in UnvalidatedUserIds,
             role \in RoleInputs \ Roles :
             /\ UpdateMemberRoleRows(classMembers, classId, userId, role, TRUE)
                   = classMembers
             /\ role # NoString
                => UpdateMemberRoleStatus(classMembers, classId, userId, role, TRUE)
                      = 500)
    /\ [][(resp'.op = "updateMemberRole" /\ resp'.status = 500)
          => UNCHANGED store]_vars

\* a refused updateMemberRole in a store whose roles were changed before
C22_Witness ==
    /\ resp.op = "updateMemberRole"
    /\ resp.status = 500
    /\ Len(classMembers) >= 2
    /\ \E m \in Rows(classMembers) : m.role = "MODERATOR"

\* ---------------------------------------------------------------------- C23
\* C23: the assigned-to rows of an assignment whose createAssignment has
\* responded are the same after every step, row for row; addMember writes
\* no AssignmentAssignmentTo row.
C23_AssignedRowsFixedAfterResponse ==
    [][/\ Extends(assignedTo, assignedTo')
       /\ \A a \in Ids(assignments) \ InFlightAssignments(inflight) :
             AssignedRows(assignedTo', a) = AssignedRows(assignedTo, a)
       /\ resp'.op = "addMember" => assignedTo' = assignedTo]_vars

\* a member added by the request just answered, after the createAssignment
\* of an assignment of the class has responded, has no row of it
C23_Witness ==
    /\ resp.op = "addMember"
    /\ resp.status = 201
    /\ \E a \in Rows(assignments), m \in Rows(classMembers) :
          /\ a.id \notin InFlightAssignments(inflight)
          /\ m.id \in resp.body
          /\ m.classId = a.classId
          /\ m.userId # a.createdBy
          /\ \A r \in AssignedRows(assignedTo, a.id) : r.userId # m.userId

\* ---------------------------------------------------------------------- C24
\* C24: every Submission row has grade 0, and no step changes a Submission
\* row once it is stored.
C24_GradeIsZero ==
    /\ [](\A s \in Rows(submissions) : s.grade = 0)
    /\ [][Extends(submissions, submissions')]_vars

\* a submission is stored and a later request of another handler has
\* written to the store
C24_Witness ==
    /\ Len(submissions) >= 1
    /\ resp.op = "updateMemberRole"
    /\ resp.status = 200
    /\ \E m \in Rows(classMembers) : m.role = "MODERATOR"

\* ---------------------------------------------------------------------- C25
\* C25: every AssignmentAssignmentTo row belongs to a stored assignment, is
\* not of the assignment's creator, and is of a user with a ClassMember row
\* for the assignment's class.
C25_AssignedAreOtherMembers ==
    \A r \in Rows(assignedTo) :
       \E a \in Rows(assignments) :
          /\ a.id = r.assignmentId
          /\ r.userId # a.createdBy
          /\ \E m \in Rows(classMembers) :
                m.classId = a.classId /\ m.userId = r.userId

\* an assignment is assigned to a member while its creator holds a
\* membership of the class too, and no handler is suspended
C25_Witness ==
    /\ FreeSlots = Slots
    /\ \E r \in Rows(assignedTo), a \in Rows(assignments) :
          /\ a.id = r.assignmentId
          /\ \E m \in Rows(classMembers) :
                m.classId = a.classId /\ m.userId = a.createdBy /\ m.role = "ADMIN"

\* ---------------------------------------------------------------------- C26
\* the users of a sequence of userIds
UsersIn(seq) == {seq[i] : i \in 1..Len(seq)}

\* the users other than createdBy with a membership row of classId
OtherMemberUsers(classId, createdBy) ==
    {m.userId : m \in {n \in Rows(classMembers) :
                          n.classId = classId /\ n.userId # createdBy}}

\* C26: the member fetch of createAssignment reads the membership of the
\* moment it runs; what it has read is not changed by a later addMember; and
\* the 201 step gives a row to the users read by the fetch, whoever the
\* members are by then.
C26_FanOutIsOfFetchTime ==
    [][\A s \in Slots :
          /\ (inflight[s].op = "createAssignment" /\ inflight'[s].op = "createAssignment"
                /\ inflight[s].pc = "findMany" /\ inflight'[s].pc = "createMany")
             => UsersIn(inflight'[s].members) =
                   OtherMemberUsers(inflight[s].classId, inflight[s].createdBy)
          /\ (inflight[s].op = "createAssignment" /\ inflight[s].pc = "createMany"
                /\ resp'.op = "addMember")
             => /\ inflight'[s] = inflight[s]
                /\ assignedTo' = assignedTo
          /\ (inflight[s].op = "createAssignment" /\ inflight[s].pc = "createMany"
                /\ inflight'[s] = Idle
                /\ resp'.op = "createAssignment" /\ resp'.status = 201)
             => {r.userId : r \in AssignedRows(assignedTo', inflight[s].assignmentId)}
                   = UsersIn(inflight[s].members)]_vars

\* an addMember has just been answered 201 after the member fetch: the
\* suspended createAssignment holds one fetched membership while the class
\* has two membership rows of users other than the creator
C26_Witness ==
    /\ resp.op = "addMember"
    /\ resp.status = 201
    /\ \E s \in Slots :
          /\ inflight[s].op = "createAssignment"
          /\ inflight[s].pc = "createMany"
          /\ Len(inflight[s].members) = 1
          /\ OtherRowCount(classMembers, inflight[s].classId, inflight[s].createdBy) = 2

\* ---------------------------------------------------------------------- C27
\* the ADMIN membership rows of a class
AdminRows(members, classId) ==
    {i \in 1..Len(members) : members[i].classId = classId /\ members[i].role = "ADMIN"}

\* the ClassMember table after one updateMemberRole(classId, u, role) for
\* each user u of us, each applied to the result of the one before
RECURSIVE AfterUpdates(_, _, _, _)
AfterUpdates(members, classId, us, role) ==
    IF us = {} THEN members
    ELSE LET u == CHOOSE x \in us : TRUE IN
         AfterUpdates(UpdateMemberRoleRows(members, classId, u, role, TRUE),
                      classId, us \ {u}, role)

\* C27: updateMemberRole for a pair that has rows answers 200 for every role
\* of the enum, whatever the rows' roles and whoever created the class, and
\* gives the role to every row of the pair; so from every state requests for
\* the users of a class lead to no ADMIN row, and to ADMIN on every row.
C27_NoGuardOnAdmin ==
    /\ [](\A m \in Rows(classMembers), role \in Roles :
             /\ UpdateMemberRoleStatus(classMembers, m.classId, m.userId, role, TRUE) = 200
             /\ UpdateMemberRoleRows(classMembers, m.classId, m.userId, role, TRUE)[m.id]
                   = [m EXCEPT !.role = role])
    /\ [](\A c \in Ids(classRooms) :
             /\ AdminRows(AfterUpdates(classMembers, c, users, "NORMAL"), c) = {}
             /\ AdminRows(AfterUpdates(classMembers, c, users, "MODERATOR"), c) = {}
             /\ AdminRows(AfterUpdates(classMembers, c, users, "ADMIN"), c)
                   = {i \in 1..Len(classMembers) : classMembers[i].classId = c})

\* a classroom whose two membership rows, of its creator and of another
\* user, are both not ADMIN after an updateMemberRole answered 200
C27_Witness ==
    /\ resp.op = "updateMemberRole"
    /\ resp.status = 200
    /\ \E c \in Rows(classRooms) :
          /\ AdminRows(classMembers, c.id) = {}
          /\ \E m, n \in Rows(classMembers) :
                /\ m.classId = c.id /\ n.classId = c.id
                /\ m.userId = c.createdBy
                /\ n.userId # c.createdBy

\* ---------------------------------------------------------------------- C28
\* the stored files that rows reference
ReferencedPaths == {StoredPaths[i] : i \in 1..Len(StoredPaths)}

\* the step in which the insert of the handler suspended in slot s fails
FailedInsertStep(s) ==
    /\ s \in FileSlots
    /\ inflight'[s] = Idle
    /\ resp'.status = 500

\* C28 as stated: a request with a file part whose insert fails answers 500,
\* adds no row and leaves its file on disk with no row referencing it.
C28_FailedInsertLeavesUnreferencedFile ==
    [][\A s \in Slots :
          FailedInsertStep(s)
          => /\ resp'.op = inflight[s].op
             /\ UNCHANGED <<fileUploads, submissions>>
             /\ SlotFile(s) \in disk'
             /\ SlotFile(s) \notin ReferencedPaths']_vars

\* C28 amended: the file of an upload or a submit is on disk while the
\* handler waits for its insert; when the insert fails the request answers
\* 500, no table changes and the file stays on disk; no file is ever removed;
\* a row references the file only when another request stored a file under
\* the same name (same timestamp, same extension) and its insert succeeded:
\* a name that was new to the directory when the file was stored is
\* referenced by no row at that moment.
C28_FailedInsertLeavesFile ==
    /\ [](\A s \in FileSlots : SlotFile(s) \in disk)
    /\ [](ReferencedPaths \subseteq disk)
    /\ [][/\ disk \subseteq disk'
          /\ \A s \in Slots :
                /\ FailedInsertStep(s)
                   => /\ resp'.op = inflight[s].op
                      /\ UNCHANGED store
                      /\ SlotFile(s) \in disk'
                      /\ SlotFile(s) \in ReferencedPaths'
                            => \E i \in 1..Len(StoredPaths) :
                                  /\ StoredPaths[i].time = inflight[s].time
                                  /\ StoredPaths[i].ext = ExtName(inflight[s].originalname)
                /\ (inflight[s] = Idle /\ inflight'[s].op \in {"uploadFile", "submitAssignment"})
                   => (StoredName(now, inflight'[s].originalname) \notin disk
                       => StoredName(now, inflight'[s].originalname)
                             \notin ReferencedPaths')]_vars

\* after a submit answered 500 the upload directory holds a file that no
\* row references
C28_Witness ==
    /\ resp.op = "submitAssignment"
    /\ resp.status = 500
    /\ submissions = <<>>
    /\ \E f \in disk : f \notin ReferencedPaths
====
